---- MODULE Spec2Model ----
(***************************************************************************)
(* Funding-rate arbitrage bot: the risk ledger, the position lifecycle and *)
(* the opportunity detector of AutoTradingBot (src/src/auto_trading_bot.ts)*)
(* driving FundingRateMonitor (src/src/funding_rate_monitor.ts).           *)
(*                                                                         *)
(* Units.  Time is in seconds (the code compares millisecond differences   *)
(* divided by 1000 resp. 3600000 against whole seconds resp. hours, which  *)
(* is the same comparison).  Funding rates and spreads are integers in     *)
(* units of 0.00001 (so 0.0002 is 20).  Notional is in units of 5000 USD   *)
(* (so 10000 is 2 and 50000 is 10).                                        *)
(***************************************************************************)
EXTENDS Integers, Sequences, FiniteSets, TLC

VARIABLES now, started, isRunning, pc,
          minFundingSpread, maxPositionNotional, maxDailyNotional,
          leverage, useDynamicSpread,
          dailyNotionalUsed, lastDailyReset, activePositions,
          spreadHistory, lastOpportunity, loggedReason,
          currentApexRate, currentCoinbaseRate, fetchFailed, staleRead,
          basisDivergence, lastSweep, env, monitors, coinbase,
          currentBybitRate, reads, lastResetCheck, binance, legacy

vars == <<now, started, isRunning, pc,
          minFundingSpread, maxPositionNotional, maxDailyNotional,
          leverage, useDynamicSpread,
          dailyNotionalUsed, lastDailyReset, activePositions,
          spreadHistory, lastOpportunity, loggedReason,
          currentApexRate, currentCoinbaseRate, fetchFailed, staleRead,
          basisDivergence, lastSweep, env, monitors,
            coinbase, currentBybitRate, reads, lastResetCheck,
          binance, legacy>>

\* the feeds of the WebSocket monitors: the funding rate the Bybit stream
\* delivered last, and the rates each opportunity check read first (and
\* logged) and the rates its detectOpportunity call read
feeds == <<currentBybitRate, reads>>

\* what lies outside the bot and its request-per-call monitor: the feeds,
\* the instant at which the daily-reset interval fired last, the Binance
\* stream of the Apex monitor, and the Polymarket bot
extra == <<feeds, lastResetCheck, binance, legacy>>

\* the venues as the polling monitor and the market see them: the rates the
\* monitor caches, whether the latest poll of a venue failed, whether a
\* cached rate was already used by a funding check and not refreshed since,
\* and the divergence of the two venues' mark prices; with them the instant
\* at which the position-monitoring interval fired last, and the
\* environment the process was started in; and the spread history and the
\* last result of each of the three interchangeable venue-pair monitors;
\* and the CoinbasePerps client with what its last call returned; and the
\* rest
venues == <<currentApexRate, currentCoinbaseRate, fetchFailed, staleRead,
            basisDivergence, lastSweep, env, monitors,
            coinbase, extra>>

config == <<minFundingSpread, maxPositionNotional, maxDailyNotional,
            leverage, useDynamicSpread>>

----------------------------------------------------------------------------
(* Bounds of the model *)

\* the clock runs over MaxPeriods funding periods of 8 h
MaxPeriods == 3
\* opportunity checks that may be in flight (awaiting a venue) together
MaxInflight == 1
\* positions kept in the position list
MaxPositions == 3
\* samples kept in the spread history
MaxHistory == 2
\* detections made within the one day of SpecOneDay
MaxDetections == 6
\* connections the Apex monitor makes to the Binance stream
MaxConnections == 3

----------------------------------------------------------------------------
(* Program constants (config.ts, DEFAULTS) *)

MIN_FUNDING_SPREAD == 20
MAX_POSITION_NOTIONAL == 2
MAX_DAILY_NOTIONAL == 10
LEVERAGE == 2
AUTO_CLOSE_INTERVAL == 8 * 60 * 60
VOLATILITY_LOOKBACK == 24 * 60 * 60
\* SPREAD_BUFFER_MULTIPLIER = 1.2 = BufferNum / BufferDen
BufferNum == 6
BufferDen == 5
\* the 24 hours of resetDailyLimits
DailyResetSeconds == 24 * 60 * 60
\* 0.01, in units of 0.005 of relative price divergence
MAX_BASIS_DIVERGENCE == 2
\* -0.0001, in the units of the rates
STOP_LOSS_SPREAD == -10

----------------------------------------------------------------------------
(* Values *)

\* the null of TypeScript, comparable with the records it stands in for
Null == [null |-> TRUE]
NoTime == -1
\* nothing logged by closePosition yet
NoReason == "none"

\* instants at which a callback may run: the multiples of 8 h, and 100 s
\* after the start, after the first funding period and after the first day
TimePoints ==
  { k * AUTO_CLOSE_INTERVAL : k \in 0..MaxPeriods }
    \cup {100, AUTO_CLOSE_INTERVAL + 100, DailyResetSeconds + 100}

\* funding rates a venue may report (0 is the "no reading" value)
Rates == {0, 20, 50}

\* a venue request that throws (network or authentication error)
Failure == [error |-> TRUE]
\* what the two venue requests of one getFundingRates call come back with
Responses == [hlRate : Rates, binRate : Rates] \cup {Failure}

\* command-line overrides <<--max-position, --max-daily-notional>>; a value
\* that is not given (or is given as 0) leaves the default in place
NotGiven == 0
CliOverrides == { <<2, 3>>, <<1, 2>>, <<3, 2>> }

TickIds == 1..MaxInflight

\* what the constructor of the monitor reads from the environment: whether
\* the two Stark keys, the account and position ids and the three Coinbase
\* credentials are set, and whether SYMBOL is in the symbol tables
\* ("mapped"), is another ...USDT pair ("usdt") or is neither ("other")
Environments ==
  [starkKeys : BOOLEAN, accountIds : BOOLEAN, coinbaseKeys : BOOLEAN,
   symbol : {"mapped", "usdt", "other"}]
FullEnvironment ==
  [starkKeys |-> TRUE, accountIds |-> TRUE, coinbaseKeys |-> TRUE,
   symbol |-> "mapped"]

\* a field of a CoinbasePerpsConfig that was left out
Undefined == "undefined"
\* !x of a string or of undefined
Falsy(x) == x \in {Undefined, ""}

\* new CoinbasePerps(clientConfig): the credentials are stored as given
CoinbasePerps(clientConfig) ==
  [apiKey |-> clientConfig.apiKey, apiSecret |-> clientConfig.apiSecret,
   passphrase |-> clientConfig.passphrase]

\* the socket and the cached rate of a new ApexFundingMonitor, with the
\* number of connections made, whether the reconnect timeout is pending
\* and whether close() was called
ApexMonitorFields ==
  [binanceWS |-> "null", currentBinanceRate |-> 0, connections |-> 0,
   reconnect |-> FALSE, closeCalled |-> FALSE]

\* the clock of the Polymarket bot when the process starts, in seconds: any
\* value that is more than a balance-check interval and a cooldown away
\* from the zero the time fields start with, as Date.now() is
LegacyEpoch == 100

\* the Polymarket bot before it is built: the field initialisers of the
\* class, the position of start() (at), of the monitoring interval
\* (monitor) and of the trading loop (trading), and the clock
PolymarketBotFields ==
  [at |-> "unbuilt", fundingMonitor |-> FALSE, tokenIds |-> FALSE,
   softwareWs |-> "null", polymarketWs |-> "null", isRunning |-> FALSE,
   lastTradeTime |-> 0, lastBalanceCheck |-> 0, lastLogTime |-> 0,
   now |-> LegacyEpoch, waitUntil |-> 0,
   monitor |-> "off", monitorNow |-> 0,
   trading |-> "off", tradingDue |-> 0]

\* the NaN that parseFloat gives for a text that is no number; it stands
\* outside the range of the rates and no arithmetic is done on it
NaN == 1000000
IsNaN(x) == x = NaN

Abs(x) == IF x < 0 THEN -x ELSE x
\* a - b in floating point: NaN when an operand is NaN
Minus(a, b) == IF IsNaN(a) \/ IsNaN(b) THEN NaN ELSE a - b
Min(a, b) == IF a < b THEN a ELSE b

RECURSIVE SumSeq(_)
SumSeq(s) == IF s = <<>> THEN 0 ELSE Head(s) + SumSeq(Tail(s))

RECURSIVE FilterSeq(_, _)
\* Array.prototype.filter with the predicate "timestamp >= cutoff"
FilterSeq(s, cutoff) ==
  IF s = <<>> THEN <<>>
  ELSE IF Head(s).timestamp >= cutoff
       THEN <<Head(s)>> \o FilterSeq(Tail(s), cutoff)
       ELSE FilterSeq(Tail(s), cutoff)

----------------------------------------------------------------------------
(* FundingRateMonitor *)

getFundingRates_lastKnown(resp) ==
  IF resp = Failure THEN [hlRate |-> 50, binRate |-> 20] ELSE resp


\* getFundingRates: the rates of the two venues, {0, 0} when a request throws
getFundingRates(resp) ==
  IF resp = Failure THEN [hlRate |-> 0, binRate |-> 0] ELSE resp

addSpreadToHistory_noPurge(history, spread, t) ==
  Append(history, [timestamp |-> t, spread |-> spread])


addSpreadToHistory_dedupe(history, spread, t) ==
  IF history # <<>> /\ history[Len(history)].spread = spread
  THEN FilterSeq(history, t - VOLATILITY_LOOKBACK)
  ELSE FilterSeq(Append(history, [timestamp |-> t, spread |-> spread]),
                 t - VOLATILITY_LOOKBACK)


\* addSpreadToHistory: push, then drop the entries older than the lookback
addSpreadToHistory(history, spread, t) ==
  FilterSeq(Append(history, [timestamp |-> t, spread |-> spread]),
            t - VOLATILITY_LOOKBACK)

calculateVolatility_aboutZero(history) ==
  IF \E i \in 1..Len(history) : IsNaN(history[i].spread)
  THEN [radicand |-> NaN, n |-> Len(history)]
  ELSE LET n == Len(history)
           s2 == SumSeq([i \in 1..n |-> history[i].spread * history[i].spread])
       IN [radicand |-> n * s2, n |-> IF n = 0 THEN 1 ELSE n]


\* calculateVolatility: the population standard deviation of the retained
\* spreads, kept exactly as sqrt(radicand) / n with
\* radicand = n * sum(x^2) - sum(x)^2; 0 with fewer than 2 samples
calculateVolatility(history) ==
  IF Len(history) < 2 THEN [radicand |-> 0, n |-> 1]
  ELSE IF \E i \in 1..Len(history) : IsNaN(history[i].spread)
  THEN [radicand |-> NaN, n |-> Len(history)]
  ELSE LET n == Len(history)
           s1 == SumSeq([i \in 1..n |-> history[i].spread])
           s2 == SumSeq([i \in 1..n |-> history[i].spread * history[i].spread])
       IN [radicand |-> n * s2 - s1 * s1, n |-> n]

calculateDynamicThreshold_static(baseThreshold, history) ==
  [base |-> baseThreshold, vol |-> [radicand |-> 0, n |-> 1]]


\* calculateDynamicThreshold: base + volatility * SPREAD_BUFFER_MULTIPLIER
calculateDynamicThreshold(baseThreshold, history) ==
  [base |-> baseThreshold, vol |-> calculateVolatility(history)]

\* the static threshold, in the same representation
staticThreshold(threshold) ==
  [base |-> threshold, vol |-> [radicand |-> 0, n |-> 1]]

exceedsThreshold_orEqual(spread, thr) ==
  LET d == Abs(spread) - thr.base
  IN /\ d >= 0
     /\ BufferDen * BufferDen * thr.vol.n * thr.vol.n * d * d
          >= BufferNum * BufferNum * thr.vol.radicand

\* Math.abs(spread) > dynamicThreshold, i.e.
\* |spread| - base > (BufferNum / BufferDen) * sqrt(radicand) / n,
\* and false when the spread or the volatility is NaN
exceedsThreshold(spread, thr) ==
  LET d == Abs(spread) - thr.base
  IN /\ ~IsNaN(spread)
     /\ ~IsNaN(thr.vol.radicand)
     /\ d > 0
     /\ BufferDen * BufferDen * thr.vol.n * thr.vol.n * d * d
          > BufferNum * BufferNum * thr.vol.radicand

invalidRates_both(rates) == rates.hlRate = 0 /\ rates.binRate = 0

\* detectOpportunity, "hlRate === 0 || binRate === 0": no valid reading
invalidRates(rates) == rates.hlRate = 0 \/ rates.binRate = 0

opportunity_swapped(spread, dynamicThreshold) ==
  IF spread > 0
  THEN [sideHl |-> "SHORT", sideBin |-> "LONG",
        spread |-> spread, dynamicThreshold |-> dynamicThreshold]
  ELSE [sideHl |-> "LONG", sideBin |-> "SHORT",
        spread |-> spread, dynamicThreshold |-> dynamicThreshold]

\* detectOpportunity, the two return statements of the over-threshold branch
opportunity(spread, dynamicThreshold) ==
  IF spread > 0
  THEN [sideHl |-> "LONG", sideBin |-> "SHORT",
        spread |-> spread, dynamicThreshold |-> dynamicThreshold]
  ELSE [sideHl |-> "SHORT", sideBin |-> "LONG",
        spread |-> spread, dynamicThreshold |-> dynamicThreshold]


detectOpportunityFrom_alwaysDynamic(rates, threshold, dynamic, history, t) ==
  LET spread == Minus(rates.hlRate, rates.binRate)
      hist == addSpreadToHistory(history, spread, t)
      dynamicThreshold == calculateDynamicThreshold(threshold, hist)
  IN IF invalidRates(rates)
     THEN [result |-> Null, history |-> history]
     ELSE IF exceedsThreshold(spread, dynamicThreshold)
          THEN [result |-> opportunity(spread, dynamicThreshold), history |-> hist]
          ELSE [result |-> Null, history |-> hist]


detectOpportunityFrom_thresholdBeforeRecord(rates, threshold, dynamic, history, t) ==
  LET spread == Minus(rates.hlRate, rates.binRate)
      hist == addSpreadToHistory(history, spread, t)
      dynamicThreshold == IF dynamic
                          THEN calculateDynamicThreshold(threshold, history)
                          ELSE staticThreshold(threshold)
  IN IF invalidRates(rates)
     THEN [result |-> Null, history |-> history]
     ELSE IF exceedsThreshold(spread, dynamicThreshold)
          THEN [result |-> opportunity(spread, dynamicThreshold), history |-> hist]
          ELSE [result |-> Null, history |-> hist]


\* detectOpportunity from the rates that its getFundingRates call returned:
\* the value returned and the history it leaves
detectOpportunityFrom(rates, threshold, dynamic, history, t) ==
  LET spread == Minus(rates.hlRate, rates.binRate)
      hist == addSpreadToHistory(history, spread, t)
      dynamicThreshold == IF dynamic
                          THEN calculateDynamicThreshold(threshold, hist)
                          ELSE staticThreshold(threshold)
  IN IF invalidRates(rates)
     THEN [result |-> Null, history |-> history]
     ELSE IF exceedsThreshold(spread, dynamicThreshold)
          THEN [result |-> opportunity(spread, dynamicThreshold), history |-> hist]
          ELSE [result |-> Null, history |-> hist]

\* detectOpportunity of the monitor that asks the venues on every call
detectOpportunity(resp, threshold, dynamic, history, t) ==
  detectOpportunityFrom(getFundingRates(resp), threshold, dynamic, history, t)

----------------------------------------------------------------------------
(* AutoTradingBot *)

canOpenPosition_anyCapacity ==
  LET remainingNotional == maxDailyNotional - dailyNotionalUsed
  IN remainingNotional > 0

canOpenPosition_perPosition ==
  LET held == SumSeq([j \in 1..Len(activePositions) |->
                        IF activePositions[j].status = "active"
                        THEN activePositions[j].notional ELSE 0])
      remainingNotional == maxDailyNotional - held
  IN remainingNotional >= maxPositionNotional


\* canOpenPosition
canOpenPosition ==
  LET remainingNotional == maxDailyNotional - dailyNotionalUsed
  IN remainingNotional >= maxPositionNotional

calculatePositionSize_leveraged ==
  LET remainingNotional == maxDailyNotional - dailyNotionalUsed
  IN Min(maxPositionNotional, remainingNotional) * leverage

\* calculatePositionSize
calculatePositionSize ==
  LET remainingNotional == maxDailyNotional - dailyNotionalUsed
  IN Min(maxPositionNotional, remainingNotional)

executeFundingArb_pruned(opp) ==
  LET positionSize == calculatePositionSize
      position == [id |-> now,
                   bybitSide |-> opp.sideHl,
                   binSide |-> opp.sideBin,
                   notional |-> positionSize,
                   leverage |-> leverage,
                   entryTime |-> now,
                   spreadAtEntry |-> opp.spread,
                   status |-> "active",
                   closeTime |-> NoTime]
      open == SelectSeq(activePositions, LAMBDA p : p.status = "active")
  IN /\ activePositions' = Append(open, position)
     /\ dailyNotionalUsed' = dailyNotionalUsed + positionSize

executeFundingArb_unreserved(opp) ==
  LET positionSize == calculatePositionSize
      position == [id |-> now,
                   bybitSide |-> opp.sideHl,
                   binSide |-> opp.sideBin,
                   notional |-> positionSize,
                   leverage |-> leverage,
                   entryTime |-> now,
                   spreadAtEntry |-> opp.spread,
                   status |-> "active",
                   closeTime |-> NoTime]
  IN /\ activePositions' = Append(activePositions, position)
     /\ dailyNotionalUsed' = dailyNotionalUsed


executeFundingArb_unhedged(opp) ==
  LET positionSize == calculatePositionSize
      position == [id |-> now,
                   bybitSide |-> opp.sideHl,
                   binSide |-> opp.sideHl,
                   notional |-> positionSize,
                   leverage |-> leverage,
                   entryTime |-> now,
                   spreadAtEntry |-> opp.spread,
                   status |-> "active",
                   closeTime |-> NoTime]
  IN /\ activePositions' = Append(activePositions, position)
     /\ dailyNotionalUsed' = dailyNotionalUsed + positionSize


\* executeFundingArb: build the position record, push it, add its notional
executeFundingArb(opp) ==
  LET positionSize == calculatePositionSize
      position == [id |-> now,
                   bybitSide |-> opp.sideHl,
                   binSide |-> opp.sideBin,
                   notional |-> positionSize,
                   leverage |-> leverage,
                   entryTime |-> now,
                   spreadAtEntry |-> opp.spread,
                   status |-> "active",
                   closeTime |-> NoTime]
  IN /\ activePositions' = Append(activePositions, position)
     /\ dailyNotionalUsed' = dailyNotionalUsed + positionSize

closePosition_noStamp(position, reason, t) ==
  [position EXCEPT !.status = "closed"]


\* closePosition at time t: mark closed and stamp the close time; the reason
\* is written to the log only
closePosition(position, reason, t) ==
  [position EXCEPT !.status = "closed", !.closeTime = t]

skipPosition_never(position) == FALSE

\* monitorPositions, "if (position.status !== 'active') continue"
skipPosition(position) == position.status # "active"

reachedAutoClose_strict(position, t) ==
  t - position.entryTime > AUTO_CLOSE_INTERVAL

\* monitorPositions, "ageSeconds >= DEFAULTS.AUTO_CLOSE_INTERVAL"
reachedAutoClose(position, t) ==
  t - position.entryTime >= AUTO_CLOSE_INTERVAL

\* monitorPositions: close every active position that reached the interval;
\* the position list after the sweep at time t
monitorPositions(positions, t) ==
  [i \in 1..Len(positions) |->
     LET position == positions[i]
     IN IF skipPosition(position) THEN position
        ELSE IF reachedAutoClose(position, t)
             THEN closePosition(position, "auto-close-timeout", t)
             ELSE position]

\* the reason closePosition logged last, after the sweep at time t
monitorPositionsLog(positions, t, logged) ==
  IF \E i \in 1..Len(positions) :
       /\ ~skipPosition(positions[i])
       /\ reachedAutoClose(positions[i], t)
  THEN "auto-close-timeout"
  ELSE logged

resetDailyLimits_everyPeriod ==
  IF now - lastDailyReset >= AUTO_CLOSE_INTERVAL
  THEN /\ dailyNotionalUsed' = 0
       /\ lastDailyReset' = now
  ELSE UNCHANGED <<dailyNotionalUsed, lastDailyReset>>

resetDailyLimits_keepsStamp ==
  IF now - lastDailyReset >= DailyResetSeconds
  THEN /\ dailyNotionalUsed' = 0
       /\ lastDailyReset' = lastDailyReset
  ELSE UNCHANGED <<dailyNotionalUsed, lastDailyReset>>


resetDailyLimits_stampOnly ==
  IF now - lastDailyReset >= DailyResetSeconds
  THEN /\ dailyNotionalUsed' = dailyNotionalUsed
       /\ lastDailyReset' = now
  ELSE UNCHANGED <<dailyNotionalUsed, lastDailyReset>>


\* resetDailyLimits
resetDailyLimits ==
  IF now - lastDailyReset >= DailyResetSeconds
  THEN /\ dailyNotionalUsed' = 0
       /\ lastDailyReset' = now
  ELSE UNCHANGED <<dailyNotionalUsed, lastDailyReset>>

----------------------------------------------------------------------------
(* Initial state: the bot after its constructor *)

\* the fields of the bot and of its monitor after construction in an
\* environment; ids names the opportunity checks that may be in flight
BotConstructorFor(ids, environment, o, threshold, dynamicSpread) ==
  /\ env = environment
  /\ now = 0
  /\ started = "no"
  /\ isRunning = FALSE
  /\ pc = [i \in ids |-> "idle"]
  /\ minFundingSpread = (IF threshold # NotGiven THEN threshold ELSE MIN_FUNDING_SPREAD)
  /\ maxPositionNotional = (IF o[1] # NotGiven THEN o[1] ELSE MAX_POSITION_NOTIONAL)
  /\ maxDailyNotional = (IF o[2] # NotGiven THEN o[2] ELSE MAX_DAILY_NOTIONAL)
  /\ leverage = LEVERAGE
  /\ useDynamicSpread = dynamicSpread
  /\ dailyNotionalUsed = 0
  /\ lastDailyReset = 0
  /\ activePositions = <<>>
  /\ spreadHistory = <<>>
  /\ lastOpportunity = Null
  /\ loggedReason = NoReason
  /\ currentApexRate = 0
  /\ currentCoinbaseRate = 0
  /\ fetchFailed = [apex |-> FALSE, coinbase |-> FALSE]
  /\ staleRead = [apex |-> FALSE, coinbase |-> FALSE]
  /\ basisDivergence = 0
  /\ lastSweep = NoTime
  /\ monitors = [m \in {"bybit", "apex", "mock"} |->
                   [history |-> <<>>, result |-> Null]]
  /\ currentBybitRate = 0
  /\ lastResetCheck = NoTime
  /\ binance = ApexMonitorFields
  /\ legacy = PolymarketBotFields
  /\ reads = [i \in ids |-> [reported |-> Null, decided |-> Null]]

BotConstructor(environment, o, threshold, dynamicSpread) ==
  BotConstructorFor(TickIds, environment, o, threshold, dynamicSpread)

\* the bot after its constructor: the monitor builds its CoinbasePerps
\* client with the credentials of the environment, '' for one not set
ConstructorIn(environment, o, threshold, dynamicSpread) ==
  /\ BotConstructor(environment, o, threshold, dynamicSpread)
  /\ LET credential == IF environment.coinbaseKeys THEN "key" ELSE ""
     IN coinbase = [client |-> CoinbasePerps([apiKey |-> credential,
                                              apiSecret |-> credential,
                                              passphrase |-> credential]),
                    returned |-> Null]

\* the bot built in an environment in which nothing is missing
Constructor(o, threshold, dynamicSpread) ==
  ConstructorIn(FullEnvironment, o, threshold, dynamicSpread)

Init ==
  \E o \in CliOverrides, dynamicSpread \in BOOLEAN :
    Constructor(o, NotGiven, dynamicSpread)

----------------------------------------------------------------------------
(* Steps *)

\* time passes between callbacks; main() starts the bot as soon as it is built
Advance(t) ==
  /\ started # "no"
  /\ t > now
  /\ now' = t
  /\ UNCHANGED <<venues, started, isRunning, pc, config, dailyNotionalUsed,
                 lastDailyReset, activePositions, spreadHistory,
                 lastOpportunity, loggedReason>>

\* start(), up to the first await inside the initial checkFundingOpportunity
Start ==
  /\ started = "no"
  /\ started' = "initial"
  /\ isRunning' = TRUE
  /\ pc' = [pc EXCEPT ![1] = "rates"]
  /\ UNCHANGED <<venues, now, config, dailyNotionalUsed, lastDailyReset,
                 activePositions, spreadHistory, lastOpportunity, loggedReason>>

\* the funding-check interval fires: checkFundingOpportunity up to its first await
CheckTimer(i) ==
  /\ started = "timers"
  /\ pc[i] = "idle"
  /\ pc' = IF isRunning THEN [pc EXCEPT ![i] = "rates"] ELSE pc
  /\ UNCHANGED <<venues, now, started, isRunning, config, dailyNotionalUsed,
                 lastDailyReset, activePositions, spreadHistory,
                 lastOpportunity, loggedReason>>

\* checkFundingOpportunity: its own getFundingRates resolves, the rates are
\* logged, detectOpportunity is called and awaits its getFundingRates
CheckRates(i) ==
  /\ pc[i] = "rates"
  /\ \E resp \in Responses : getFundingRates(resp).hlRate \in Rates
  /\ pc' = [pc EXCEPT ![i] = "detect"]
  /\ UNCHANGED <<venues, now, started, isRunning, config, dailyNotionalUsed,
                 lastDailyReset, activePositions, spreadHistory,
                 lastOpportunity, loggedReason>>

CheckDetect_yieldsBeforeAdmission(i, resp) ==
  /\ pc[i] = "detect"
  /\ LET d == detectOpportunity(resp, minFundingSpread, useDynamicSpread,
                                spreadHistory, now)
     IN /\ spreadHistory' = d.history
        /\ lastOpportunity' = d.result
  /\ pc' = [pc EXCEPT ![i] = "admission"]
  /\ started' = IF started = "initial" THEN "timers" ELSE started
  /\ UNCHANGED <<venues, now, isRunning, config, lastDailyReset, loggedReason,
                 activePositions, dailyNotionalUsed>>


CheckDetect_ignoresAdmission(i, resp) ==
  /\ pc[i] = "detect"
  /\ LET d == detectOpportunity(resp, minFundingSpread, useDynamicSpread,
                                spreadHistory, now)
     IN /\ spreadHistory' = d.history
        /\ lastOpportunity' = d.result
        /\ IF d.result # Null
           THEN executeFundingArb(d.result)
           ELSE UNCHANGED <<activePositions, dailyNotionalUsed>>
  /\ pc' = [pc EXCEPT ![i] = "idle"]
  /\ started' = IF started = "initial" THEN "timers" ELSE started
  /\ UNCHANGED <<venues, now, isRunning, config, lastDailyReset, loggedReason>>


\* detectOpportunity finishes and checkFundingOpportunity runs to its end;
\* the initial check done, start() registers the three timers
CheckDetect(i, resp) ==
  /\ pc[i] = "detect"
  /\ LET d == detectOpportunity(resp, minFundingSpread, useDynamicSpread,
                                spreadHistory, now)
     IN /\ spreadHistory' = d.history
        /\ lastOpportunity' = d.result
        /\ IF d.result # Null /\ canOpenPosition
           THEN executeFundingArb(d.result)
           ELSE UNCHANGED <<activePositions, dailyNotionalUsed>>
  /\ pc' = [pc EXCEPT ![i] = "idle"]
  /\ started' = IF started = "initial" THEN "timers" ELSE started
  /\ UNCHANGED <<venues, now, isRunning, config, lastDailyReset, loggedReason>>

MonitorTimer_releases ==
  /\ started = "timers"
  /\ IF isRunning
     THEN /\ activePositions' = monitorPositions(activePositions, now)
          /\ loggedReason' = monitorPositionsLog(activePositions, now, loggedReason)
          /\ dailyNotionalUsed' =
               SumSeq([j \in 1..Len(activePositions) |->
                         IF activePositions'[j].status = "active"
                         THEN activePositions[j].notional ELSE 0])
     ELSE UNCHANGED <<activePositions, loggedReason, dailyNotionalUsed>>
  /\ UNCHANGED <<venues, now, started, isRunning, pc, config,
                 lastDailyReset, spreadHistory, lastOpportunity>>


\* the 60 s position-monitoring interval fires
MonitorTimer ==
  /\ started = "timers"
  /\ IF isRunning
     THEN /\ activePositions' = monitorPositions(activePositions, now)
          /\ loggedReason' = monitorPositionsLog(activePositions, now, loggedReason)
     ELSE UNCHANGED <<activePositions, loggedReason>>
  /\ UNCHANGED <<venues, now, started, isRunning, pc, config, dailyNotionalUsed,
                 lastDailyReset, spreadHistory, lastOpportunity>>

\* the hourly daily-reset interval fires
ResetTimer ==
  /\ started = "timers"
  /\ resetDailyLimits
  /\ UNCHANGED <<venues, now, started, isRunning, pc, config, activePositions,
                 spreadHistory, lastOpportunity, loggedReason>>

Stop_liquidates ==
  /\ started # "no"
  /\ isRunning
  /\ isRunning' = FALSE
  /\ activePositions' =
       [j \in 1..Len(activePositions) |->
          IF activePositions[j].status = "active"
          THEN closePosition(activePositions[j], "shutdown", now)
          ELSE activePositions[j]]
  /\ UNCHANGED <<venues, now, started, pc, config, dailyNotionalUsed, lastDailyReset,
                 spreadHistory, lastOpportunity, loggedReason>>


\* stop()
Stop ==
  /\ started # "no"
  /\ isRunning
  /\ isRunning' = FALSE
  /\ UNCHANGED <<venues, now, started, pc, config, dailyNotionalUsed, lastDailyReset,
                 activePositions, spreadHistory, lastOpportunity, loggedReason>>

Next ==
  \/ \E t \in TimePoints : Advance(t)
  \/ Start
  \/ \E i \in TickIds : CheckTimer(i)
  \/ \E i \in TickIds : CheckRates(i)
  \/ \E i \in TickIds, resp \in Responses :
       /\ CheckDetect(i, resp)
       /\ Len(spreadHistory') <= MaxHistory
       /\ Len(activePositions') <= MaxPositions
  \/ MonitorTimer
  \/ ResetTimer
  \/ Stop

Spec == Init /\ [][Next]_vars

----------------------------------------------------------------------------
(* One day on the default caps: no daily reset falls due, every venue read *)
(* that succeeds shows the same spread above the static threshold          *)

OneDayOverrides == { <<NotGiven, NotGiven>>, <<2, 3>> }
OneDayResponses == { [hlRate |-> 50, binRate |-> 20], Failure }
OneDayTimePoints == { 100, AUTO_CLOSE_INTERVAL }

InitOneDay == \E o \in OneDayOverrides : Constructor(o, NotGiven, FALSE)

NextOneDay ==
  \/ \E t \in OneDayTimePoints : Advance(t)
  \/ Start
  \/ \E i \in TickIds : CheckTimer(i)
  \/ \E i \in TickIds : CheckRates(i)
  \/ \E i \in TickIds, resp \in OneDayResponses :
       /\ CheckDetect(i, resp)
       /\ Len(spreadHistory') <= MaxDetections
  \/ MonitorTimer
  \/ Stop

SpecOneDay == InitOneDay /\ [][NextOneDay]_vars

----------------------------------------------------------------------------
(* The risk ledger *)

\* C1: under every interleaving of opportunity checks, position sweeps and
\* daily-reset checks, 0 <= dailyNotionalUsed <= maxDailyNotional
C1_DailyNotionalWithinCap ==
  /\ 0 <= dailyNotionalUsed
  /\ dailyNotionalUsed <= maxDailyNotional

\* the daily cap is used up to the last unit by opened positions
C1_CapReached ==
  /\ Len(activePositions) >= 2
  /\ dailyNotionalUsed = maxDailyNotional

\* C2: from dailyNotionalUsed = 0 and without a daily reset, an open is
\* admitted exactly while fewer than floor(maxDailyNotional /
\* maxPositionNotional) positions were opened (5 with the defaults), every
\* opened position has notional maxPositionNotional, never less, and
\* canOpenPosition rejects every further attempt
C2_OpensUntilFloor ==
  LET opens == Len(activePositions)
      floor == maxDailyNotional \div maxPositionNotional
  IN /\ \A i \in 1..opens : activePositions[i].notional = maxPositionNotional
     /\ dailyNotionalUsed = opens * maxPositionNotional
     /\ opens <= floor
     /\ canOpenPosition <=> opens < floor

\* the defaults: five positions are open and a sixth detected opportunity
\* was turned down
C2_SixthRejected ==
  /\ maxPositionNotional = MAX_POSITION_NOTIONAL
  /\ maxDailyNotional = MAX_DAILY_NOTIONAL
  /\ Len(activePositions) = 5
  /\ Len(spreadHistory) = 6
  /\ lastOpportunity # Null
  /\ \A i \in TickIds : pc[i] = "idle"

\* C3: every accepted position has notional min(maxPositionNotional,
\* maxDailyNotional - dailyNotionalUsed) as of the moment it is accepted, and
\* accepting it adds exactly that notional to dailyNotionalUsed
C3_AcceptedNotional ==
  [][ Len(activePositions') # Len(activePositions) =>
        /\ Len(activePositions') = Len(activePositions) + 1
        /\ LET accepted == activePositions'[Len(activePositions')]
           IN /\ accepted.notional =
                   Min(maxPositionNotional, maxDailyNotional - dailyNotionalUsed)
              /\ accepted.status = "active"
              /\ dailyNotionalUsed' = dailyNotionalUsed + accepted.notional ]_vars

\* two positions were accepted and the ledger holds the sum of their notionals
C3_TwoAccepted ==
  /\ Len(activePositions) = 2
  /\ dailyNotionalUsed = activePositions[1].notional + activePositions[2].notional
  /\ dailyNotionalUsed > 0

\* a step in which an opportunity check of the hourly timer evaluates
\* canOpenPosition (the daily-reset timer is registered by then)
AdmissionChecked ==
  /\ started = "timers"
  /\ \E i \in TickIds : pc[i] = "detect" /\ pc'[i] = "idle"
  /\ lastOpportunity' # Null

\* the ledger still counts a position opened 24 h ago or earlier
UsedADayAgo ==
  /\ dailyNotionalUsed > 0
  /\ \E j \in 1..Len(activePositions) :
       now - activePositions[j].entryTime >= DailyResetSeconds

\* a step that resets the ledger
LedgerReset ==
  \/ lastDailyReset' # lastDailyReset
  \/ dailyNotionalUsed' < dailyNotionalUsed

\* C4 as claimed: the reset happens exactly when 24 h have elapsed and not
\* before, and once 24 h have elapsed no admission check is evaluated against
\* the usage that is not yet reset
C4_ResetExactlyWhenDue ==
  /\ [][ LedgerReset => now - lastDailyReset >= DailyResetSeconds ]_vars
  /\ [][ AdmissionChecked /\ UsedADayAgo =>
           now - lastDailyReset < DailyResetSeconds ]_vars

\* C4 as amended: the ledger is reset only by a daily-reset check that runs
\* when now - lastDailyReset >= 24 h, never before, and such a check sets
\* dailyNotionalUsed to 0 and lastDailyReset to now; an admission check that
\* runs before it sees the usage of the day before
C4_ResetOnlyWhenDue ==
  /\ [][ LedgerReset =>
           /\ now - lastDailyReset >= DailyResetSeconds
           /\ dailyNotionalUsed' = 0
           /\ lastDailyReset' = now
           /\ UNCHANGED <<activePositions, spreadHistory, pc>> ]_vars
  /\ [][ ResetTimer /\ now - lastDailyReset >= DailyResetSeconds =>
           dailyNotionalUsed' = 0 /\ lastDailyReset' = now ]_vars

\* the usage of a day on which a position was opened has been reset
C4_UsageReset ==
  /\ Len(activePositions) > 0
  /\ lastDailyReset >= DailyResetSeconds
  /\ dailyNotionalUsed = 0


----------------------------------------------------------------------------
(* Detection on its own: the caps leave no room for a position, so every  *)
(* funding check ends after detectOpportunity; thresholds, the dynamic    *)
(* flag and the readings vary                                             *)

DetectOverrides == { <<3, 2>> }
\* --min-spread: not given (the default 0.0002) or 0.0003
DetectThresholds == { NotGiven, 30 }
DetectRates == {0, 15, 20, 50}
DetectResponses == [hlRate : DetectRates, binRate : DetectRates] \cup {Failure}
DetectTimePoints == { 100, DailyResetSeconds + 100 }

InitDetect ==
  \E o \in DetectOverrides, threshold \in DetectThresholds,
     dynamicSpread \in BOOLEAN :
    Constructor(o, threshold, dynamicSpread)

NextDetect ==
  \/ \E t \in DetectTimePoints : Advance(t)
  \/ Start
  \/ \E i \in TickIds : CheckTimer(i)
  \/ \E i \in TickIds : CheckRates(i)
  \/ \E i \in TickIds, resp \in DetectResponses :
       /\ CheckDetect(i, resp)
       /\ Len(spreadHistory') <= MaxHistory

SpecDetect == InitDetect /\ [][NextDetect]_vars

----------------------------------------------------------------------------
(* Opportunity detection *)

\* a step in which detectOpportunity returns, having read resp from the venues
DetectReturns(resp) == \E i \in TickIds : CheckDetect(i, resp)

\* the threshold in effect for a detection that leaves the given history
EffectiveThreshold(history) ==
  IF useDynamicSpread
  THEN calculateDynamicThreshold(minFundingSpread, history)
  ELSE staticThreshold(minFundingSpread)

\* x > base + 1.2 * sqrt(radicand) / n over the reals
StrictlyAbove(x, thr) ==
  /\ x > thr.base
  /\ 25 * thr.vol.n * thr.vol.n * (x - thr.base) * (x - thr.base)
       > 36 * thr.vol.radicand

\* C5: detectOpportunity returns an opportunity only when both rates are
\* non-zero and |rateA - rateB| is strictly greater than the effective
\* threshold, returns null when |spread| is at or below it, and the
\* opportunity carries spread = rateA - rateB and the threshold compared
C5_OpportunityOnlyAboveThreshold ==
  [][ \A resp \in DetectResponses \cup Responses :
        DetectReturns(resp) =>
          LET rateA == IF resp = Failure THEN 0 ELSE resp.hlRate
              rateB == IF resp = Failure THEN 0 ELSE resp.binRate
              thr == EffectiveThreshold(spreadHistory')
              above == StrictlyAbove(Abs(rateA - rateB), thr)
          IN /\ lastOpportunity' # Null =>
                  /\ rateA # 0 /\ rateB # 0
                  /\ above
                  /\ lastOpportunity'.spread = rateA - rateB
                  /\ lastOpportunity'.dynamicThreshold = thr
             /\ ~above => lastOpportunity' = Null ]_vars

\* an opportunity was returned against a dynamic threshold that the spread
\* volatility had raised above the base threshold
C5_AboveRaisedThreshold ==
  /\ lastOpportunity # Null
  /\ useDynamicSpread
  /\ lastOpportunity.dynamicThreshold.vol.radicand > 0
  /\ lastOpportunity.spread = spreadHistory[Len(spreadHistory)].spread

\* C6: a returned opportunity is LONG on venue A and SHORT on venue B when
\* rateA > rateB, SHORT on A and LONG on B when rateA < rateB, and its two
\* sides are never equal
C6_SignCorrect ==
  [][ \A resp \in (DetectResponses \cup Responses) \ {Failure} :
        DetectReturns(resp) /\ lastOpportunity' # Null =>
          /\ resp.hlRate > resp.binRate =>
               lastOpportunity'.sideHl = "LONG" /\ lastOpportunity'.sideBin = "SHORT"
          /\ resp.hlRate < resp.binRate =>
               lastOpportunity'.sideHl = "SHORT" /\ lastOpportunity'.sideBin = "LONG"
          /\ lastOpportunity'.sideHl # lastOpportunity'.sideBin ]_vars

\* after an opportunity on a positive spread, one on a negative spread was
\* returned with venue A on the short side
C6_ShortOnNegativeSpread ==
  /\ Len(spreadHistory) = 2
  /\ spreadHistory[1].spread > 0
  /\ lastOpportunity # Null
  /\ lastOpportunity.spread < 0
  /\ lastOpportunity.sideHl = "SHORT"
  /\ lastOpportunity.sideBin = "LONG"

\* C7: when either venue rate is exactly 0, detectOpportunity returns null
\* whatever the other rate, the threshold, the dynamic flag and the history
C7_SentinelRejected ==
  [][ \A resp \in (DetectResponses \cup Responses) \ {Failure} :
        DetectReturns(resp) /\ (resp.hlRate = 0 \/ resp.binRate = 0) =>
          lastOpportunity' = Null ]_vars

\* the latest recorded spread is above the static threshold and was returned
\* as an opportunity, yet the latest detection returned null: it read a zero
\* rate and recorded nothing
C7_NullAfterOpportunity ==
  /\ ~useDynamicSpread
  /\ Len(spreadHistory) = 1
  /\ Abs(spreadHistory[1].spread) > minFundingSpread
  /\ now = spreadHistory[1].timestamp
  /\ lastOpportunity = Null
  /\ \A i \in TickIds : pc[i] = "idle"


----------------------------------------------------------------------------
(* Position lifecycle *)

\* a step in which the position sweep runs (the bot was not stopped)
SweepRuns == MonitorTimer /\ isRunning

\* C8: a sweep at time now closes every active position with
\* now - entryTime >= 28800 s, logging auto-close-timeout, and leaves active
\* every position with now - entryTime < 28800 s; age exactly 28800 s closes
C8_SweepClosesAtInterval ==
  [][ SweepRuns =>
        /\ Len(activePositions') = Len(activePositions)
        /\ \A j \in 1..Len(activePositions) :
             LET before == activePositions[j]
                 after == activePositions'[j]
             IN /\ (before.status = "active" /\ now - before.entryTime >= 8 * 60 * 60)
                     => /\ after.status = "closed"
                        /\ after.closeTime = now
                        /\ loggedReason' = "auto-close-timeout"
                /\ (before.status = "active" /\ now - before.entryTime < 8 * 60 * 60)
                     => after = before ]_vars

\* one sweep closed a position of age exactly 28800 s for timeout and left a
\* younger position active
C8_ClosedAtExactAge ==
  /\ loggedReason = "auto-close-timeout"
  /\ \E j, k \in 1..Len(activePositions) :
       /\ activePositions[j].status = "closed"
       /\ activePositions[j].closeTime = now
       /\ now - activePositions[j].entryTime = 8 * 60 * 60
       /\ activePositions[k].status = "active"
       /\ now - activePositions[k].entryTime < 8 * 60 * 60
       /\ activePositions[k].entryTime > activePositions[j].entryTime

\* C9: a second sweep at the same now changes nothing and closes nothing
\* again, and no sweep re-closes a closed position or overwrites its
\* closeTime
C9_SweepIdempotent ==
  [][ SweepRuns =>
        /\ activePositions' = monitorPositions(activePositions, now)
        /\ monitorPositions(activePositions', now) = activePositions'
        /\ monitorPositionsLog(activePositions', now, NoReason) = NoReason
        /\ \A j \in 1..Len(activePositions) :
             activePositions[j].status = "closed"
               => activePositions'[j] = activePositions[j] ]_vars

\* a sweep closed a position while another one, closed by an earlier sweep,
\* kept its earlier closeTime
C9_EarlierCloseKept ==
  \E j, k \in 1..Len(activePositions) :
    /\ activePositions[j].status = "closed"
    /\ activePositions[j].closeTime < now
    /\ activePositions[k].status = "closed"
    /\ activePositions[k].closeTime = now

\* C10: a position's status changes only from active to closed, never back,
\* and only in a sweep; no position is removed or replaced, the list of
\* positions only grows
C10_OnlySweepCloses ==
  [][ /\ Len(activePositions') >= Len(activePositions)
      /\ \A j \in 1..Len(activePositions) :
           LET before == activePositions[j]
               after == activePositions'[j]
           IN /\ [after EXCEPT !.status = before.status,
                               !.closeTime = before.closeTime] = before
              /\ before.status = "closed" => after.status = "closed"
              /\ after.status # before.status =>
                   /\ before.status = "active"
                   /\ after.status = "closed"
                   /\ SweepRuns ]_vars

\* a closed position is still on the list after a later position was opened
C10_ClosedKeptAfterOpen ==
  \E j, k \in 1..Len(activePositions) :
    /\ j < k
    /\ activePositions[j].status = "closed"
    /\ activePositions[k].status = "active"
    /\ activePositions[k].entryTime >= activePositions[j].closeTime


----------------------------------------------------------------------------
(* The polling monitor (Apex <-> Coinbase): two 60 s polls refresh the     *)
(* cached rates, and getFundingRates serves the cached rates while both    *)
(* are non-zero                                                            *)

PolledRates == {0, 20, 50}
\* what one poll of a venue comes back with
PollOutcomes == [rate : PolledRates] \cup {Failure}
PolledOverrides == { <<1, 2>> }
PolledTimePoints == { 60, 60 * 60 }

\* getFundingRates of the polling monitor: the cached rates when both are
\* non-zero, else the rates of the two venue requests, and the cached rates
\* again when a request throws
getFundingRatesCached(resp) ==
  LET cached == [hlRate |-> currentApexRate, binRate |-> currentCoinbaseRate]
  IN IF currentApexRate # 0 /\ currentCoinbaseRate # 0 THEN cached
     ELSE IF resp = Failure THEN cached
     ELSE resp

\* getFundingRates answers from the cache
servedFromCache == currentApexRate # 0 /\ currentCoinbaseRate # 0

\* fetchApexFundingRate: a poll of venue A comes back
fetchApexFundingRate(outcome) ==
  /\ started # "no"
  /\ IF outcome = Failure
     THEN /\ fetchFailed' = [fetchFailed EXCEPT !.apex = TRUE]
          /\ UNCHANGED <<currentApexRate, staleRead>>
     ELSE /\ currentApexRate' = outcome.rate
          /\ fetchFailed' = [fetchFailed EXCEPT !.apex = FALSE]
          /\ staleRead' = [staleRead EXCEPT !.apex = FALSE]
  /\ UNCHANGED <<extra, now, started, isRunning, pc, config, dailyNotionalUsed,
                 lastDailyReset, activePositions, spreadHistory,
                 lastOpportunity, loggedReason, currentCoinbaseRate,
                 basisDivergence, lastSweep, env, monitors,
            coinbase>>

\* fetchCoinbaseFundingRate: a poll of venue B comes back
fetchCoinbaseFundingRate(outcome) ==
  /\ started # "no"
  /\ IF outcome = Failure
     THEN /\ fetchFailed' = [fetchFailed EXCEPT !.coinbase = TRUE]
          /\ UNCHANGED <<currentCoinbaseRate, staleRead>>
     ELSE /\ currentCoinbaseRate' = outcome.rate
          /\ fetchFailed' = [fetchFailed EXCEPT !.coinbase = FALSE]
          /\ staleRead' = [staleRead EXCEPT !.coinbase = FALSE]
  /\ UNCHANGED <<extra, now, started, isRunning, pc, config, dailyNotionalUsed,
                 lastDailyReset, activePositions, spreadHistory,
                 lastOpportunity, loggedReason, currentApexRate,
                 basisDivergence, lastSweep, env, monitors,
            coinbase>>

\* checkFundingOpportunity of the bot on the polling monitor, from the
\* return of detectOpportunity to its end
CachedCheckDetect(i, resp) ==
  /\ pc[i] = "detect"
  /\ LET d == detectOpportunityFrom(getFundingRatesCached(resp),
                                    minFundingSpread, useDynamicSpread,
                                    spreadHistory, now)
     IN /\ spreadHistory' = d.history
        /\ lastOpportunity' = d.result
        /\ IF d.result # Null /\ canOpenPosition
           THEN executeFundingArb(d.result)
           ELSE UNCHANGED <<activePositions, dailyNotionalUsed>>
  /\ pc' = [pc EXCEPT ![i] = "idle"]
  /\ started' = IF started = "initial" THEN "timers" ELSE started
  /\ staleRead' = IF servedFromCache
                  THEN [apex |-> TRUE, coinbase |-> TRUE]
                  ELSE staleRead
  /\ UNCHANGED <<extra, now, isRunning, config, lastDailyReset, loggedReason,
                 currentApexRate, currentCoinbaseRate, fetchFailed,
                 basisDivergence, lastSweep, env, monitors,
            coinbase>>

InitPolled ==
  \E o \in PolledOverrides : Constructor(o, NotGiven, FALSE)

NextPolled ==
  \/ \E t \in PolledTimePoints : Advance(t)
  \/ Start
  \/ \E i \in TickIds : CheckTimer(i)
  \/ \E i \in TickIds : CheckRates(i)
  \/ \E i \in TickIds, resp \in Responses :
       /\ CachedCheckDetect(i, resp)
       /\ Len(spreadHistory') <= MaxHistory
  \/ \E outcome \in PollOutcomes : fetchApexFundingRate(outcome)
  \/ \E outcome \in PollOutcomes : fetchCoinbaseFundingRate(outcome)

SpecPolled == InitPolled /\ [][NextPolled]_vars

\* C11: detectOpportunity returns no opportunity, and no position is opened,
\* in a funding check in which the latest fetch of either venue's rate
\* failed or the rate used was not refreshed since an earlier check
C11_FailSafeReads ==
  [][ \A resp \in Responses :
        /\ \E i \in TickIds : CachedCheckDetect(i, resp)
        /\ \/ servedFromCache /\ (fetchFailed.apex \/ fetchFailed.coinbase)
           \/ servedFromCache /\ (staleRead.apex \/ staleRead.coinbase)
           \/ ~servedFromCache /\ resp = Failure
        => /\ lastOpportunity' = Null
           /\ activePositions' = activePositions ]_vars


----------------------------------------------------------------------------
(* Venue failures and invalid reads *)

NaNRates == {20, 50, NaN}
NaNResponses == [hlRate : NaNRates, binRate : NaNRates]
NaNOverrides == { <<2, 3>> }
NaNTimePoints == { 60 * 60 }

InitNaN ==
  \E o \in NaNOverrides, dynamicSpread \in BOOLEAN :
    Constructor(o, NotGiven, dynamicSpread)

NextNaN ==
  \/ \E t \in NaNTimePoints : Advance(t)
  \/ Start
  \/ \E i \in TickIds : CheckTimer(i)
  \/ \E i \in TickIds : CheckRates(i)
  \/ \E i \in TickIds, resp \in NaNResponses :
       /\ CheckDetect(i, resp)
       /\ Len(spreadHistory') <= MaxHistory + 1

SpecNaN == InitNaN /\ [][NextNaN]_vars

\* C13: when a venue read is NaN the check is skipped: detectOpportunity
\* returns null and the spread history, dailyNotionalUsed and the positions
\* are left unchanged
C13_NaNSkipsTick ==
  [][ \A resp \in NaNResponses :
        /\ \E i \in TickIds : CheckDetect(i, resp)
        /\ IsNaN(resp.hlRate) \/ IsNaN(resp.binRate)
        => /\ lastOpportunity' = Null
           /\ spreadHistory' = spreadHistory
           /\ dailyNotionalUsed' = dailyNotionalUsed
           /\ activePositions' = activePositions ]_vars


----------------------------------------------------------------------------
(* The spread history *)

\* C14 as claimed: in every reachable state every retained sample satisfies
\* timestamp >= now - 86400 s
C14_HistoryWithinWindow ==
  \A k \in 1..Len(spreadHistory) :
    spreadHistory[k].timestamp >= now - 24 * 60 * 60

\* C14: right after every insert every retained sample satisfies
\* timestamp >= now - 86400 s, the insert having purged exactly the samples
\* older than that (a sample of age exactly 86400 s stays); nothing else
\* changes the history, so between inserts a retained sample may grow older
\* than the window
C14_PurgedOnInsert ==
  [][ spreadHistory' # spreadHistory =>
        /\ \E i \in TickIds : pc[i] = "detect" /\ pc'[i] = "idle"
        /\ \A k \in 1..Len(spreadHistory') :
             spreadHistory'[k].timestamp >= now - 24 * 60 * 60
        /\ spreadHistory'[Len(spreadHistory')].timestamp = now
        /\ SubSeq(spreadHistory', 1, Len(spreadHistory') - 1) =
             SelectSeq(spreadHistory,
                       LAMBDA e : e.timestamp >= now - 24 * 60 * 60) ]_vars

\* the sample recorded when the first position was opened at time 0 is gone
\* from the history, which holds a sample taken more than 24 h later
C14_OldSamplePurged ==
  /\ Len(activePositions) >= 1
  /\ activePositions[1].entryTime = 0
  /\ Len(spreadHistory) >= 1
  /\ \A k \in 1..Len(spreadHistory) :
       spreadHistory[k].timestamp > 24 * 60 * 60


\* C15: every detectOpportunity call with two non-zero rates appends exactly
\* one new sample, with spread = rateA - rateB, to the spread history,
\* whether or not an opportunity is returned and whatever the policy, so the
\* history differs after every such call; a call rejected by the zero
\* sentinel appends nothing
C15_OneSamplePerCall ==
  [][ \A resp \in DetectResponses :
        DetectReturns(resp) =>
          LET rateA == IF resp = Failure THEN 0 ELSE resp.hlRate
              rateB == IF resp = Failure THEN 0 ELSE resp.binRate
              retained == SelectSeq(spreadHistory,
                            LAMBDA e : e.timestamp >= now - 24 * 60 * 60)
          IN IF rateA # 0 /\ rateB # 0
             THEN /\ spreadHistory' =
                       Append(retained,
                              [timestamp |-> now, spread |-> rateA - rateB])
                  /\ spreadHistory' # spreadHistory
             ELSE spreadHistory' = spreadHistory ]_vars

\* two calls with the same rates at the same time, neither returning an
\* opportunity under the static policy, left two equal samples
C15_TwoEqualSamples ==
  /\ ~useDynamicSpread
  /\ Len(spreadHistory) = 2
  /\ spreadHistory[1] = spreadHistory[2]
  /\ Abs(spreadHistory[2].spread) <= minFundingSpread
  /\ lastOpportunity = Null


----------------------------------------------------------------------------
(* Repeated detection: the venues always answer, every call records a     *)
(* sample, two answers are possible and differ in their spread            *)

RepeatResponses == { [hlRate |-> 33, binRate |-> 20],
                     [hlRate |-> 50, binRate |-> 20] }
RepeatOverrides == { <<3, 2>> }
RepeatTimePoints == { 60 * 60 }

InitRepeat ==
  \E o \in RepeatOverrides, dynamicSpread \in BOOLEAN :
    Constructor(o, NotGiven, dynamicSpread)

NextRepeat ==
  \/ \E t \in RepeatTimePoints : Advance(t)
  \/ Start
  \/ \E i \in TickIds : CheckTimer(i)
  \/ \E i \in TickIds : CheckRates(i)
  \/ \E i \in TickIds, resp \in RepeatResponses :
       /\ CheckDetect(i, resp)
       /\ Len(spreadHistory') <= MaxHistory + 2

SpecRepeat == InitRepeat /\ [][NextRepeat]_vars

\* a step in which detectOpportunity returns on the rates that the call
\* before it read as well
RepeatedCall(resp) ==
  /\ DetectReturns(resp)
  /\ spreadHistory # <<>>
  /\ spreadHistory[Len(spreadHistory)].spread = resp.hlRate - resp.binRate

\* the two decisions agree: both null, or the same sides and spread
SameDecision(first, second) ==
  /\ first = Null <=> second = Null
  /\ first # Null /\ second # Null =>
       /\ first.sideHl = second.sideHl
       /\ first.sideBin = second.sideBin
       /\ first.spread = second.spread

\* C16 as claimed: two consecutive detectOpportunity calls with the same pair
\* of non-zero rates and the same configuration return the same decision
C16_SameDecisionOnRepeat ==
  [][ \A resp \in RepeatResponses :
        RepeatedCall(resp) => SameDecision(lastOpportunity, lastOpportunity') ]_vars

\* C16: with the static policy two consecutive calls with the same pair of
\* non-zero rates return the same decision; with the dynamic policy two
\* such calls that both return an opportunity return the same sides and
\* spread (the decision itself may differ)
C16_SameDecisionWhenStatic ==
  [][ \A resp \in RepeatResponses :
        RepeatedCall(resp) =>
          /\ ~useDynamicSpread => SameDecision(lastOpportunity, lastOpportunity')
          /\ lastOpportunity # Null /\ lastOpportunity' # Null =>
               SameDecision(lastOpportunity, lastOpportunity') ]_vars

\* under the static policy the same rates were read twice and an opportunity
\* was returned for them
C16_OpportunityTwice ==
  /\ ~useDynamicSpread
  /\ Len(spreadHistory) >= 2
  /\ spreadHistory[Len(spreadHistory)].spread
       = spreadHistory[Len(spreadHistory) - 1].spread
  /\ lastOpportunity # Null
  /\ lastOpportunity.spread = spreadHistory[Len(spreadHistory)].spread


----------------------------------------------------------------------------
(* The threshold policy *)

\* sqrt(v1.radicand) / v1.n < sqrt(v2.radicand) / v2.n
VolatilityLess(v1, v2) ==
  v1.radicand * v2.n * v2.n < v2.radicand * v1.n * v1.n

\* t1 < t2 for two thresholds over the same base
ThresholdLess(t1, t2) ==
  /\ t1.base = t2.base
  /\ 36 * t1.vol.radicand * t2.vol.n * t2.vol.n
       < 36 * t2.vol.radicand * t1.vol.n * t1.vol.n

\* the thresholds of the dynamic policy for a base and the histories before
\* and after a step grow strictly with the volatility of the history
GrowsWithVolatility(base, h1, h2) ==
  VolatilityLess(calculateVolatility(h1), calculateVolatility(h2))
    => ThresholdLess(calculateDynamicThreshold(base, h1),
                     calculateDynamicThreshold(base, h2))

----------------------------------------------------------------------------
(* The market around an open position: the mark prices of the two venues  *)
(* drift apart and come together again, and the funding spread collapses  *)

MarketResponses == { [hlRate |-> 50, binRate |-> 20],
                     [hlRate |-> 20, binRate |-> 20] }
MarketOverrides == { <<2, 3>>, <<1, 2>> }
MarketTimePoints == { 100, AUTO_CLOSE_INTERVAL }
\* divergence of the two mark prices: none, or 0.015
BasisDivergences == {0, 3}

\* the mark prices of the two venues move
MarkPricesMove(divergence) ==
  /\ started # "no"
  /\ divergence # basisDivergence
  /\ basisDivergence' = divergence
  /\ UNCHANGED <<extra, now, started, isRunning, pc, config, dailyNotionalUsed,
                 lastDailyReset, activePositions, spreadHistory,
                 lastOpportunity, loggedReason, currentApexRate,
                 currentCoinbaseRate, fetchFailed, staleRead, lastSweep,
                 env, monitors, coinbase>>

InitMarket == \E o \in MarketOverrides : Constructor(o, NotGiven, FALSE)

NextMarket ==
  \/ \E t \in MarketTimePoints : Advance(t)
  \/ Start
  \/ \E i \in TickIds : CheckTimer(i)
  \/ \E i \in TickIds : CheckRates(i)
  \/ \E i \in TickIds, resp \in MarketResponses :
       /\ CheckDetect(i, resp)
       /\ Len(spreadHistory') <= MaxHistory + 1
  \/ MonitorTimer
  \/ \E divergence \in BasisDivergences : MarkPricesMove(divergence)

SpecMarket == InitMarket /\ [][NextMarket]_vars

\* C18: the sweep closes, with reason basis-divergence, every active
\* position while the divergence between the two venues' mark prices exceeds
\* maxBasisDivergence (0.01), also a position younger than autoCloseInterval
C18_BasisDivergenceCloses ==
  [][ SweepRuns /\ basisDivergence > MAX_BASIS_DIVERGENCE =>
        \A j \in 1..Len(activePositions) :
          activePositions[j].status = "active" =>
            /\ activePositions'[j].status = "closed"
            /\ now - activePositions[j].entryTime < AUTO_CLOSE_INTERVAL
                 => loggedReason' = "basis-divergence" ]_vars


\* how far the spread moved in favour of the position since its entry
\* (negative: against it)
SpreadMove(position, spread) ==
  IF position.spreadAtEntry > 0
  THEN spread - position.spreadAtEntry
  ELSE position.spreadAtEntry - spread

\* C19: the sweep closes, with reason stop-loss, every active position whose
\* spread, as last read from the venues, has moved against its entry spread
\* by more than stopLossSpread (0.0001), also a position younger than
\* autoCloseInterval
C19_StopLossCloses ==
  [][ SweepRuns /\ spreadHistory # <<>> =>
        \A j \in 1..Len(activePositions) :
          /\ activePositions[j].status = "active"
          /\ SpreadMove(activePositions[j],
                        spreadHistory[Len(spreadHistory)].spread)
               < STOP_LOSS_SPREAD
          => /\ activePositions'[j].status = "closed"
             /\ now - activePositions[j].entryTime < AUTO_CLOSE_INTERVAL
                  => loggedReason' = "stop-loss" ]_vars

\* C20: whenever the sweep closes a position, the position record afterwards
\* has status closed, a closeTime and the closeReason that caused the close,
\* so every closed position on the list carries its reason
C20_ClosedCarriesReason ==
  \A j \in 1..Len(activePositions) :
    activePositions[j].status = "closed" =>
      /\ activePositions[j].closeTime # NoTime
      /\ "closeReason" \in DOMAIN activePositions[j]


\* C20 (as the code has it): a position the sweep closes gets status closed
\* and the time of the sweep as closeTime and keeps its other fields; the
\* reason of the close is written to the log and is not a field of the
\* position record
C20_ClosedCarriesTimeOnly ==
  /\ [](\A j \in 1..Len(activePositions) :
          activePositions[j].status = "closed" =>
            /\ activePositions[j].closeTime # NoTime
            /\ activePositions[j].closeTime >= activePositions[j].entryTime
            /\ "closeReason" \notin DOMAIN activePositions[j])
  /\ [][ \A j \in 1..Len(activePositions) :
           activePositions'[j].status # activePositions[j].status =>
             /\ activePositions'[j].closeTime = now
             /\ DOMAIN activePositions'[j] = DOMAIN activePositions[j]
             /\ loggedReason' = "auto-close-timeout" ]_vars

\* a sweep has closed a position and logged the reason of the close
C20_ClosedAndLogged ==
  /\ loggedReason = "auto-close-timeout"
  /\ \E j \in 1..Len(activePositions) :
       /\ activePositions[j].status = "closed"
       /\ activePositions[j].closeTime = activePositions[j].entryTime + AUTO_CLOSE_INTERVAL


----------------------------------------------------------------------------
(* The ledger and the positions *)

\* C21: a step that closes a position leaves dailyNotionalUsed as it was,
\* and dailyNotionalUsed decreases only in a daily reset that is due; the
\* capacity an opened position consumed stays consumed when it closes
C21_CloseKeepsUsage ==
  [][ /\ (\E j \in 1..Len(activePositions) :
            activePositions'[j].status # activePositions[j].status)
        => dailyNotionalUsed' = dailyNotionalUsed
      /\ dailyNotionalUsed' < dailyNotionalUsed
        => /\ ResetTimer
           /\ now - lastDailyReset >= DailyResetSeconds ]_vars

\* a position is closed, no daily reset has run since it was opened, and the
\* capacity it consumed still blocks the admission of a further position
C21_ClosedStillCounts ==
  /\ ~canOpenPosition
  /\ lastDailyReset = 0
  /\ \E j \in 1..Len(activePositions) :
       /\ activePositions[j].status = "closed"
       /\ dailyNotionalUsed =
            SumSeq([k \in 1..Len(activePositions) |-> activePositions[k].notional])


\* C22: stop() changes no position, and no step taken while the bot is
\* stopped changes a position that exists: every position that was active
\* before stop() is still active after it
C22_StopKeepsPositions ==
  [][ ~isRunning' =>
        \A j \in 1..Len(activePositions) :
          activePositions'[j] = activePositions[j] ]_vars

\* the bot was stopped with a position open, and the position is still
\* active at an age at which a sweep of the running bot closes it
C22_ActiveAfterStop ==
  /\ started = "timers"
  /\ ~isRunning
  /\ \E j \in 1..Len(activePositions) :
       /\ activePositions[j].status = "active"
       /\ now - activePositions[j].entryTime >= AUTO_CLOSE_INTERVAL


----------------------------------------------------------------------------
(* The sweep timer on the clock: the position-monitoring interval fires    *)
(* every 60 s after start() registered it, and a position may be entered   *)
(* between two of its firings                                              *)

\* the 60000 ms of the position-monitoring setInterval
SWEEP_INTERVAL == 60
SweepOverrides == { <<1, 2>> }
SweepResponses == { [hlRate |-> 50, binRate |-> 20], Failure }
\* instants at which a callback may run: a firing of the sweep timer, the
\* instant halfway to the next firing and the next firing, at the start and
\* one and two funding periods later
SweepTimePoints ==
  { k * AUTO_CLOSE_INTERVAL + d : k \in 0..2, d \in {0, 30, SWEEP_INTERVAL} }
\* the last instant of the clock
SweepHorizon == 2 * AUTO_CLOSE_INTERVAL + SWEEP_INTERVAL

\* a firing of the 60 s position-monitoring interval is due now and has not
\* run yet; the interval is registered at time 0
SweepDue ==
  /\ started = "timers"
  /\ now > 0
  /\ now % SWEEP_INTERVAL = 0
  /\ lastSweep # now

SweepTimer_hourly ==
  /\ SweepDue
  /\ now % (60 * 60) = 0
  /\ lastSweep' = now
  /\ IF isRunning
     THEN /\ activePositions' = monitorPositions(activePositions, now)
          /\ loggedReason' = monitorPositionsLog(activePositions, now, loggedReason)
     ELSE UNCHANGED <<activePositions, loggedReason>>
  /\ UNCHANGED <<extra, currentApexRate, currentCoinbaseRate, fetchFailed, staleRead,
                 basisDivergence, env, monitors, coinbase, now, started,
                 isRunning, pc, config,
                 dailyNotionalUsed, lastDailyReset, spreadHistory,
                 lastOpportunity>>

\* the 60 s position-monitoring interval fires at the instant it is due
SweepTimer ==
  /\ SweepDue
  /\ lastSweep' = now
  /\ IF isRunning
     THEN /\ activePositions' = monitorPositions(activePositions, now)
          /\ loggedReason' = monitorPositionsLog(activePositions, now, loggedReason)
     ELSE UNCHANGED <<activePositions, loggedReason>>
  /\ UNCHANGED <<extra, currentApexRate, currentCoinbaseRate, fetchFailed, staleRead,
                 basisDivergence, env, monitors, coinbase, now, started,
                 isRunning, pc, config,
                 dailyNotionalUsed, lastDailyReset, spreadHistory,
                 lastOpportunity>>

\* time passes to the next instant, once the timer that was due has fired;
\* the firings the clock steps over find no position of age 8 h
AdvanceSweep ==
  /\ started = "timers"
  /\ ~SweepDue
  /\ \E t \in SweepTimePoints :
       /\ \A u \in SweepTimePoints : u > now => t <= u
       /\ Advance(t)

InitSweep == \E o \in SweepOverrides : Constructor(o, NotGiven, FALSE)

\* a check opens a position only while the clock leaves the position the
\* time to reach the age of 8 h and the firing after it
NextSweep ==
  \/ AdvanceSweep
  \/ Start
  \/ \E i \in TickIds : CheckTimer(i)
  \/ \E i \in TickIds : CheckRates(i)
  \/ \E i \in TickIds, resp \in SweepResponses :
       /\ CheckDetect(i, resp)
       /\ now + AUTO_CLOSE_INTERVAL + SWEEP_INTERVAL <= SweepHorizon
       /\ Len(spreadHistory') <= MaxDetections
  \/ SweepTimer
  \/ Stop

\* the timer keeps firing and time keeps passing
SpecSweep ==
  /\ InitSweep
  /\ [][NextSweep]_vars
  /\ WF_vars(SweepTimer)
  /\ WF_vars(AdvanceSweep)

\* C23: while the bot keeps running and the 60 s sweep timer keeps firing,
\* every opened position is eventually closed, and no position is active at
\* an age of 8 h plus one sweep period: the first sweep at or after
\* entryTime + autoCloseInterval closes it
C23_EveryPositionCloses ==
  /\ [](isRunning =>
          \A j \in 1..Len(activePositions) :
            activePositions[j].status = "active" =>
              now - activePositions[j].entryTime
                < AUTO_CLOSE_INTERVAL + SWEEP_INTERVAL)
  /\ \A j \in 1..MaxPositions :
       (j <= Len(activePositions) /\ activePositions[j].status = "active")
         ~> \/ ~isRunning
            \/ j <= Len(activePositions) /\ activePositions[j].status = "closed"
  /\ [][ SweepTimer /\ isRunning =>
           \A j \in 1..Len(activePositions) :
             (activePositions[j].status = "active"
                /\ now >= activePositions[j].entryTime + AUTO_CLOSE_INTERVAL)
               => activePositions'[j].status = "closed" ]_vars

\* a position entered between two firings of the sweep timer was closed by
\* the first firing after it reached the age of 8 h, 8 h and 30 s after its
\* entry
C23_ClosedAfterHalfPeriod ==
  /\ isRunning
  /\ \E j \in 1..Len(activePositions) :
       /\ activePositions[j].status = "closed"
       /\ activePositions[j].entryTime % SWEEP_INTERVAL = 30
       /\ activePositions[j].closeTime
            = activePositions[j].entryTime + AUTO_CLOSE_INTERVAL + 30


----------------------------------------------------------------------------
(* Startup: the constructor of the bot builds the monitor, and the         *)
(* constructor of the monitor reads the symbol and the credentials from    *)
(* the environment                                                         *)

StartupOverrides == { <<1, 2>> }
StartupResponses == { [hlRate |-> 50, binRate |-> 20] }
StartupTimePoints == { 100, AUTO_CLOSE_INTERVAL }

\* convertToApexSymbol and convertToCoinbaseSymbol: a symbol of the table
\* is converted, another ...USDT pair is converted by the fallback with a
\* warning, any other symbol throws
convertSymbolThrows(symbol) == symbol = "other"

monitorConstructorThrows_never(environment) == FALSE

\* the constructor of the monitor throws: a symbol cannot be converted, a
\* Stark key is not set, or the account or position id is not set; missing
\* Coinbase credentials are only warned about
monitorConstructorThrows(environment) ==
  \/ convertSymbolThrows(environment.symbol)
  \/ ~environment.starkKeys
  \/ ~environment.accountIds

\* main(): new AutoTradingBot() throws what the constructor of the monitor
\* threw, main() rejects and the error is printed; start() is never called
ConstructorThrows ==
  /\ started = "no"
  /\ monitorConstructorThrows(env)
  /\ started' = "failed"
  /\ UNCHANGED <<venues, now, isRunning, pc, config, dailyNotionalUsed,
                 lastDailyReset, activePositions, spreadHistory,
                 lastOpportunity, loggedReason>>

\* main(): the bot is built and start() is called
StartBuilt ==
  /\ ~monitorConstructorThrows(env)
  /\ Start

InitStartup ==
  \E e \in Environments, o \in StartupOverrides :
    ConstructorIn(e, o, NotGiven, FALSE)

NextStartup ==
  \/ \E t \in StartupTimePoints : started # "failed" /\ Advance(t)
  \/ ConstructorThrows
  \/ StartBuilt
  \/ \E i \in TickIds : CheckTimer(i)
  \/ \E i \in TickIds : CheckRates(i)
  \/ \E i \in TickIds, resp \in StartupResponses :
       /\ CheckDetect(i, resp)
       /\ Len(spreadHistory') <= MaxHistory
  \/ MonitorTimer

SpecStartup == InitStartup /\ [][NextStartup]_vars

\* the engine has not started: no timer is registered, no opportunity
\* check has run or is running, and there is no position
NeverStarted ==
  /\ started \in {"no", "failed"}
  /\ ~isRunning
  /\ \A i \in TickIds : pc[i] = "idle"
  /\ spreadHistory = <<>>
  /\ activePositions = <<>>

\* C24: if a required credential (a Stark key, the account or position id)
\* or the mapping of the symbol is missing at startup, construction fails
\* and the engine never starts: no timer, no opportunity check, no position
C24_MissingConfigNeverStarts ==
  (~env.starkKeys \/ ~env.accountIds \/ env.symbol # "mapped")
    => NeverStarted

\* C24 (as the code has it): if a Stark key or the account or position id
\* is not set, or the symbol is neither in the symbol table nor a ...USDT
\* pair, construction fails and the engine never starts; the engine starts
\* only in the other environments, among them a ...USDT pair without a
\* mapping and missing Coinbase credentials
C24_UnusableConfigNeverStarts ==
  /\ (~env.starkKeys \/ ~env.accountIds \/ env.symbol = "other")
       => NeverStarted
  /\ started = "failed"
       => (~env.starkKeys \/ ~env.accountIds \/ env.symbol = "other")

\* construction failed for a missing account id although the symbol is in
\* the table and the other credentials are set
C24_FailedForCredential ==
  /\ started = "failed"
  /\ ~env.accountIds
  /\ env.starkKeys
  /\ env.coinbaseKeys
  /\ env.symbol = "mapped"


----------------------------------------------------------------------------
(* The venue-pair monitors: the Bybit monitor, ApexFundingMonitor and the  *)
(* MockFundingRateMonitor of the test suite, each with its own spread      *)
(* history, given the same rates                                           *)

\* FundingRateMonitor (Bybit <-> Coinbase).addSpreadToHistory
Bybit_addSpreadToHistory(history, spread, t) ==
  LET pushed == Append(history, [timestamp |-> t, spread |-> spread])
      cutoffTime == t - VOLATILITY_LOOKBACK
  IN FilterSeq(pushed, cutoffTime)

\* FundingRateMonitor (Bybit <-> Coinbase).calculateVolatility
Bybit_calculateVolatility(history) ==
  IF Len(history) < 2 THEN [radicand |-> 0, n |-> 1]
  ELSE LET n == Len(history)
           spreads == [i \in 1..n |-> history[i].spread]
           s1 == SumSeq(spreads)
           s2 == SumSeq([i \in 1..n |-> spreads[i] * spreads[i]])
       IN [radicand |-> n * s2 - s1 * s1, n |-> n]

\* FundingRateMonitor (Bybit <-> Coinbase).calculateDynamicThreshold
Bybit_calculateDynamicThreshold(baseThreshold, history) ==
  [base |-> baseThreshold, vol |-> Bybit_calculateVolatility(history)]

\* FundingRateMonitor (Bybit <-> Coinbase).detectOpportunity from the rates its getFundingRates gave
\* (hlRate: venue A, binRate: venue B): the value returned and the history
\* it leaves
Bybit_detectOpportunity(rates, threshold, dynamic, history, t) ==
  LET spread == rates.hlRate - rates.binRate
      hist == Bybit_addSpreadToHistory(history, spread, t)
      dynamicThreshold == IF dynamic
                          THEN Bybit_calculateDynamicThreshold(threshold, hist)
                          ELSE staticThreshold(threshold)
  IN IF rates.hlRate = 0 \/ rates.binRate = 0
     THEN [result |-> Null, history |-> history]
     ELSE IF exceedsThreshold(spread, dynamicThreshold)
          THEN [result |-> IF spread > 0
                           THEN [sideBybit |-> "LONG", sideCoinbase |-> "SHORT",
                                 spread |-> spread,
                                 dynamicThreshold |-> dynamicThreshold]
                           ELSE [sideBybit |-> "SHORT", sideCoinbase |-> "LONG",
                                 spread |-> spread,
                                 dynamicThreshold |-> dynamicThreshold],
                history |-> hist]
          ELSE [result |-> Null, history |-> hist]

\* ApexFundingMonitor.addSpreadToHistory
Apex_addSpreadToHistory(history, spread, t) ==
  LET pushed == Append(history, [timestamp |-> t, spread |-> spread])
      cutoffTime == t - VOLATILITY_LOOKBACK
  IN FilterSeq(pushed, cutoffTime)

\* ApexFundingMonitor.calculateVolatility
Apex_calculateVolatility(history) ==
  IF Len(history) < 2 THEN [radicand |-> 0, n |-> 1]
  ELSE LET n == Len(history)
           spreads == [i \in 1..n |-> history[i].spread]
           s1 == SumSeq(spreads)
           s2 == SumSeq([i \in 1..n |-> spreads[i] * spreads[i]])
       IN [radicand |-> n * s2 - s1 * s1, n |-> n]

\* ApexFundingMonitor.calculateDynamicThreshold
Apex_calculateDynamicThreshold(baseThreshold, history) ==
  [base |-> baseThreshold, vol |-> Apex_calculateVolatility(history)]

\* ApexFundingMonitor.detectOpportunity from the rates its getFundingRates gave
\* (hlRate: venue A, binRate: venue B): the value returned and the history
\* it leaves
Apex_detectOpportunity(rates, threshold, dynamic, history, t) ==
  LET spread == rates.hlRate - rates.binRate
      hist == Apex_addSpreadToHistory(history, spread, t)
      dynamicThreshold == IF dynamic
                          THEN Apex_calculateDynamicThreshold(threshold, hist)
                          ELSE staticThreshold(threshold)
  IN IF rates.hlRate = 0 \/ rates.binRate = 0
     THEN [result |-> Null, history |-> history]
     ELSE IF exceedsThreshold(spread, dynamicThreshold)
          THEN [result |-> IF spread > 0
                           THEN [sideApex |-> "LONG", sideBin |-> "SHORT",
                                 spread |-> spread,
                                 dynamicThreshold |-> dynamicThreshold]
                           ELSE [sideApex |-> "SHORT", sideBin |-> "LONG",
                                 spread |-> spread,
                                 dynamicThreshold |-> dynamicThreshold],
                history |-> hist]
          ELSE [result |-> Null, history |-> hist]

\* MockFundingRateMonitor.addSpreadToHistory
Mock_addSpreadToHistory(history, spread, t) ==
  LET pushed == Append(history, [timestamp |-> t, spread |-> spread])
      cutoffTime == t - VOLATILITY_LOOKBACK
  IN FilterSeq(pushed, cutoffTime)

\* MockFundingRateMonitor.calculateVolatility
Mock_calculateVolatility(history) ==
  IF Len(history) < 2 THEN [radicand |-> 0, n |-> 1]
  ELSE LET n == Len(history)
           spreads == [i \in 1..n |-> history[i].spread]
           s1 == SumSeq(spreads)
           s2 == SumSeq([i \in 1..n |-> spreads[i] * spreads[i]])
       IN [radicand |-> n * s2 - s1 * s1, n |-> n]

\* MockFundingRateMonitor.calculateDynamicThreshold
Mock_calculateDynamicThreshold(baseThreshold, history) ==
  [base |-> baseThreshold, vol |-> Mock_calculateVolatility(history)]

Mock_detectOpportunity_orEqual(rates, threshold, dynamic, history, t) ==
  LET spread == rates.hlRate - rates.binRate
      hist == Mock_addSpreadToHistory(history, spread, t)
      dynamicThreshold == IF dynamic
                          THEN Mock_calculateDynamicThreshold(threshold, hist)
                          ELSE staticThreshold(threshold)
  IN IF rates.hlRate = 0 \/ rates.binRate = 0
     THEN [result |-> Null, history |-> history]
     ELSE IF exceedsThreshold_orEqual(spread, dynamicThreshold)
          THEN [result |-> IF spread > 0
                           THEN [sideBybit |-> "LONG", sideBin |-> "SHORT",
                                 spread |-> spread,
                                 dynamicThreshold |-> dynamicThreshold]
                           ELSE [sideBybit |-> "SHORT", sideBin |-> "LONG",
                                 spread |-> spread,
                                 dynamicThreshold |-> dynamicThreshold],
                history |-> hist]
          ELSE [result |-> Null, history |-> hist]

\* MockFundingRateMonitor.detectOpportunity from the rates its getFundingRates gave
\* (hlRate: venue A, binRate: venue B): the value returned and the history
\* it leaves
Mock_detectOpportunity(rates, threshold, dynamic, history, t) ==
  LET spread == rates.hlRate - rates.binRate
      hist == Mock_addSpreadToHistory(history, spread, t)
      dynamicThreshold == IF dynamic
                          THEN Mock_calculateDynamicThreshold(threshold, hist)
                          ELSE staticThreshold(threshold)
  IN IF rates.hlRate = 0 \/ rates.binRate = 0
     THEN [result |-> Null, history |-> history]
     ELSE IF exceedsThreshold(spread, dynamicThreshold)
          THEN [result |-> IF spread > 0
                           THEN [sideBybit |-> "LONG", sideBin |-> "SHORT",
                                 spread |-> spread,
                                 dynamicThreshold |-> dynamicThreshold]
                           ELSE [sideBybit |-> "SHORT", sideBin |-> "LONG",
                                 spread |-> spread,
                                 dynamicThreshold |-> dynamicThreshold],
                history |-> hist]
          ELSE [result |-> Null, history |-> hist]

PairOverrides == { <<3, 2>> }
PairThresholds == { NotGiven, 30 }
PairRates == {0, 15, 20, 50}
PairTimePoints == { 100, DailyResetSeconds + 100 }

\* one call of detectOpportunity on each of the three monitors, with the
\* same rates, the same base threshold and the same dynamic flag
PairDetect(rates) ==
  /\ started = "timers"
  /\ monitors' =
       [m \in {"bybit", "apex", "mock"} |->
          CASE m = "bybit" ->
                 Bybit_detectOpportunity(rates, minFundingSpread, useDynamicSpread,
                                         monitors[m].history, now)
            [] m = "apex" ->
                 Apex_detectOpportunity(rates, minFundingSpread, useDynamicSpread,
                                        monitors[m].history, now)
            [] m = "mock" ->
                 Mock_detectOpportunity(rates, minFundingSpread, useDynamicSpread,
                                        monitors[m].history, now)]
  /\ UNCHANGED <<extra, currentApexRate, currentCoinbaseRate, fetchFailed, staleRead,
                 basisDivergence, lastSweep, env, coinbase, now, started, isRunning,
                 pc, config, dailyNotionalUsed, lastDailyReset,
                 activePositions, spreadHistory, lastOpportunity,
                 loggedReason>>

InitPair ==
  \E o \in PairOverrides, threshold \in PairThresholds,
     dynamicSpread \in BOOLEAN :
    Constructor(o, threshold, dynamicSpread)

NextPair ==
  \/ \E t \in PairTimePoints : Advance(t)
  \/ Start
  \/ \E i \in TickIds : CheckRates(i)
  \/ \E i \in TickIds : CheckDetect(i, Failure)
  \/ \E hl \in PairRates, bin \in PairRates :
       /\ PairDetect([hlRate |-> hl, binRate |-> bin])
       /\ Len(monitors'.bybit.history) <= MaxHistory

SpecPair == InitPair /\ [][NextPair]_vars

\* what a monitor decided, with its two sides named by their role
Decision(result, sideA, sideB) ==
  IF result = Null THEN Null
  ELSE [sideA |-> result[sideA], sideB |-> result[sideB],
        spread |-> result.spread,
        dynamicThreshold |-> result.dynamicThreshold]

\* C25: given the same base threshold, dynamic flag, prior history and pair
\* of rates, the Bybit monitor, ApexFundingMonitor and
\* MockFundingRateMonitor return the same decision (null, or the same
\* venue-A and venue-B sides, spread and dynamicThreshold) and leave the
\* same spread history
C25_MonitorsAgree ==
  /\ monitors.apex.history = monitors.bybit.history
  /\ monitors.mock.history = monitors.bybit.history
  /\ Decision(monitors.apex.result, "sideApex", "sideBin")
       = Decision(monitors.bybit.result, "sideBybit", "sideCoinbase")
  /\ Decision(monitors.mock.result, "sideBybit", "sideBin")
       = Decision(monitors.bybit.result, "sideBybit", "sideCoinbase")

\* the three monitors, with the dynamic policy and two samples of different
\* spreads in their histories, returned an opportunity SHORT on venue A
C25_AgreedOnDynamicShort ==
  /\ useDynamicSpread
  /\ Len(monitors.mock.history) = 2
  /\ monitors.mock.history[1].spread # monitors.mock.history[2].spread
  /\ monitors.mock.result # Null
  /\ monitors.apex.result # Null
  /\ monitors.bybit.result # Null
  /\ monitors.bybit.result.sideBybit = "SHORT"
  /\ monitors.apex.result.sideApex = "SHORT"



----------------------------------------------------------------------------
(* The CoinbasePerps client: the public getFundingRate and, beside it, the *)
(* authenticated getProduct, on clients built with and without credentials *)

Credentials == {Undefined, "", "key"}
CoinbaseConfigs ==
  [apiKey : Credentials, apiSecret : Credentials, passphrase : Credentials]

\* the JSON null
JsNull == "null"
\* what the predicted_funding_rate of a product may be: left out, null, a
\* rate, or a text that is no rate
FundingFields ==
  {Undefined, JsNull, "0.0005", "0.0002", "-0.00013", "0.0002abc", "abc", ""}
\* the body of an answer: null, an error message, or a product
ProductData ==
  {[kind |-> "null", predicted_funding_rate |-> Undefined],
   [kind |-> "message", predicted_funding_rate |-> Undefined]}
    \cup [kind : {"product"}, predicted_funding_rate : FundingFields]
\* the request that gets no answer (network error, timeout)
NoAnswer == [status |-> 0, data |-> [kind |-> "none"]]
ProductAnswers == [status : {200, 500}, data : ProductData] \cup {NoAnswer}

\* parseFloat(String(rate)), in the units of the rates: the number the text
\* starts with, NaN when it starts with none
parseFloat(text) ==
  CASE text = "0.0005" -> 50
    [] text = "0.0002" -> 20
    [] text = "-0.00013" -> -13
    [] text = "0.0002abc" -> 20
    [] OTHER -> NaN

\* a call that threw
Thrown == [threw |-> TRUE, value |-> 0]
Returned(v) == [threw |-> FALSE, value |-> v]

\* getHeaders: throws unless apiKey, apiSecret and passphrase are all set
getHeaders(client) ==
  IF Falsy(client.apiKey) \/ Falsy(client.apiSecret) \/ Falsy(client.passphrase)
  THEN Thrown
  ELSE Returned(0)

\* handleResponse: throws on a status >= 400 and on a body with a message
handleResponse(response) ==
  IF response.status >= 400 THEN Thrown
  ELSE IF response.data.kind = "message" THEN Thrown
  ELSE Returned(response.data)

\* publicGet: the request without headers, any error rethrown
publicGet(answer) ==
  IF answer = NoAnswer THEN Thrown ELSE handleResponse(answer)

\* get: the request with the headers of getHeaders, any error rethrown
get(client, answer) ==
  IF getHeaders(client).threw THEN Thrown
  ELSE IF answer = NoAnswer THEN Thrown
  ELSE handleResponse(answer)

getFundingRate_authenticated(client, answer) ==
  LET data == get(client, answer)
  IN IF data.threw THEN Returned(0)
     ELSE IF data.value.kind = "null" THEN Returned(0)
     ELSE LET rate == data.value.predicted_funding_rate
              parsedRate == parseFloat(rate)
          IN IF rate = Undefined \/ rate = JsNull THEN Returned(0)
             ELSE IF IsNaN(parsedRate) THEN Returned(0)
             ELSE Returned(parsedRate)

\* getFundingRate: the predicted_funding_rate of the product, read by
\* publicGet; whatever is thrown inside (by publicGet, by reading a field of
\* null, for a missing or non-numeric rate) is caught and 0 is returned
getFundingRate(client, answer) ==
  LET data == publicGet(answer)
  IN IF data.threw THEN Returned(0)
     ELSE IF data.value.kind = "null" THEN Returned(0)
     ELSE LET rate == data.value.predicted_funding_rate
              parsedRate == parseFloat(rate)
          IN IF rate = Undefined \/ rate = JsNull THEN Returned(0)
             ELSE IF IsNaN(parsedRate) THEN Returned(0)
             ELSE Returned(parsedRate)

\* getProduct: the product, read by get
getProduct(client, answer) ==
  LET data == get(client, answer)
  IN IF data.threw THEN Thrown ELSE Returned(0)

\* a call of getFundingRate on the client, answered by the venue
getFundingRateCall(answer) ==
  /\ LET r == getFundingRate(coinbase.client, answer)
     IN coinbase' = [coinbase EXCEPT !.returned =
                       [method |-> "getFundingRate", answer |-> answer,
                        threw |-> r.threw, value |-> r.value]]
  /\ UNCHANGED <<extra, currentApexRate, currentCoinbaseRate, fetchFailed, staleRead,
                 basisDivergence, lastSweep, env, monitors, now, started,
                 isRunning, pc, config, dailyNotionalUsed, lastDailyReset,
                 activePositions, spreadHistory, lastOpportunity,
                 loggedReason>>

\* a call of getProduct on the client, answered by the venue; the product
\* it returns is not kept
getProductCall(answer) ==
  /\ LET r == getProduct(coinbase.client, answer)
     IN coinbase' = [coinbase EXCEPT !.returned =
                       [method |-> "getProduct", answer |-> answer,
                        threw |-> r.threw, value |-> r.value]]
  /\ UNCHANGED <<extra, currentApexRate, currentCoinbaseRate, fetchFailed, staleRead,
                 basisDivergence, lastSweep, env, monitors, now, started,
                 isRunning, pc, config, dailyNotionalUsed, lastDailyReset,
                 activePositions, spreadHistory, lastOpportunity,
                 loggedReason>>

InitCoinbase ==
  \E clientConfig \in CoinbaseConfigs :
    /\ BotConstructor(FullEnvironment, <<1, 2>>, NotGiven, FALSE)
    /\ coinbase = [client |-> CoinbasePerps(clientConfig), returned |-> Null]

NextCoinbase ==
  \/ \E answer \in ProductAnswers : getFundingRateCall(answer)
  \/ \E answer \in ProductAnswers : getProductCall(answer)

SpecCoinbase == InitCoinbase /\ [][NextCoinbase]_vars

\* the venue answered with a product whose predicted_funding_rate is a rate
RateAvailable(answer) ==
  /\ answer # NoAnswer
  /\ answer.status = 200
  /\ answer.data.kind = "product"
  /\ answer.data.predicted_funding_rate \in
       {"0.0005", "0.0002", "-0.00013", "0.0002abc"}

\* the client with all three credentials
KeyedClient ==
  CoinbasePerps([apiKey |-> "key", apiSecret |-> "key", passphrase |-> "key"])

\* C26: getFundingRate on a client built without credentials (absent or
\* empty) never throws and never fails for lack of credentials: it returns
\* what it returns on a client with credentials, a number that is not NaN,
\* and 0 when the venue gives no rate
C26_PublicRateWithoutCredentials ==
  (coinbase.returned # Null /\ coinbase.returned.method = "getFundingRate")
    => /\ ~coinbase.returned.threw
       /\ ~IsNaN(coinbase.returned.value)
       /\ coinbase.returned.value
            = getFundingRate(KeyedClient, coinbase.returned.answer).value
       /\ ~RateAvailable(coinbase.returned.answer)
            => coinbase.returned.value = 0
       /\ RateAvailable(coinbase.returned.answer)
            => coinbase.returned.value
                 = parseFloat(coinbase.returned.answer.data.predicted_funding_rate)

\* a client built with no credentials at all returned the rate 0.0005 of
\* the venue
C26_RateFetchedWithoutCredentials ==
  /\ coinbase.client.apiKey = Undefined
  /\ coinbase.client.apiSecret = Undefined
  /\ coinbase.client.passphrase = Undefined
  /\ coinbase.returned # Null
  /\ coinbase.returned.method = "getFundingRate"
  /\ coinbase.returned.value = 50


----------------------------------------------------------------------------
(* Overlapping callbacks: a second opportunity check starts while the      *)
(* first still awaits a venue, and the sweep and the daily reset fire in   *)
(* between                                                                 *)

\* the opportunity checks that may be in flight together
OverlapIds == 1..(MaxInflight + 1)
OverlapOverrides == { <<1, 2>> }
OverlapResponses == { [hlRate |-> 50, binRate |-> 20] }
OverlapTimePoints == { AUTO_CLOSE_INTERVAL, DailyResetSeconds }

InitOverlap ==
  \E o \in OverlapOverrides :
    /\ BotConstructorFor(OverlapIds, FullEnvironment, o, NotGiven, FALSE)
    /\ coinbase = [client |-> KeyedClient, returned |-> Null]

NextOverlap ==
  \/ \E t \in OverlapTimePoints : Advance(t)
  \/ Start
  \/ \E i \in OverlapIds : CheckTimer(i)
  \/ \E i \in OverlapIds : CheckRates(i)
  \/ \E i \in OverlapIds, resp \in OverlapResponses :
       /\ CheckDetect(i, resp)
       /\ Len(spreadHistory') <= MaxHistory + 2
  \/ MonitorTimer
  \/ ResetTimer

SpecOverlap == InitOverlap /\ [][NextOverlap]_vars

\* C27: admission is atomic. An opportunity check in flight is at one of
\* its two awaits, never between a passed canOpenPosition and the increase
\* of dailyNotionalUsed; the step that opens a position is the last step of
\* one check, finds canOpenPosition true and increases dailyNotionalUsed in
\* the same step, so the check of another callback sees the increased
\* value, and dailyNotionalUsed stays within the cap
C27_AdmissionAtomic ==
  /\ [](\A i \in DOMAIN pc : pc[i] \in {"idle", "rates", "detect"})
  /\ [](dailyNotionalUsed <= maxDailyNotional)
  /\ [][ Len(activePositions') > Len(activePositions) =>
           /\ canOpenPosition
           /\ dailyNotionalUsed' > dailyNotionalUsed
           /\ \E i \in DOMAIN pc :
                /\ pc[i] = "detect"
                /\ pc' = [pc EXCEPT ![i] = "idle"] ]_vars

\* two opportunity checks were in flight together with room for one
\* position: one of them has just used up the cap, the other one still
\* awaits detectOpportunity
C27_SecondCheckInFlight ==
  /\ ~canOpenPosition
  /\ dailyNotionalUsed = maxDailyNotional
  /\ Len(activePositions) > 0
  /\ activePositions[Len(activePositions)].entryTime = now
  /\ \E i, j \in DOMAIN pc : pc[i] = "detect" /\ pc[j] = "idle" /\ i # j


\* C28: each tick runs to completion before any other callback fires: while
\* an opportunity check is in flight, no position sweep, no daily-reset
\* check and no second opportunity check executes
C28_TickRunsToCompletion ==
  [][ (\E i \in DOMAIN pc : pc[i] # "idle") =>
        /\ ~MonitorTimer
        /\ ~ResetTimer
        /\ \A j \in DOMAIN pc : ~CheckTimer(j) ]_vars

\* C28 (as the code has it): an opportunity check yields at its two awaits
\* only, of getFundingRates and of detectOpportunity, and there other
\* callbacks may run; its last segment, from the result of
\* detectOpportunity through canOpenPosition and executeFundingArb to its
\* end, is one step, and the sweep and the reset check move no check on
C28_YieldsOnlyAtAwaits ==
  [][ /\ (MonitorTimer \/ ResetTimer) => pc' = pc
      /\ \A i \in DOMAIN pc :
           pc'[i] # pc[i] =>
             /\ <<pc[i], pc'[i]>> \in
                  {<<"idle", "rates">>, <<"rates", "detect">>, <<"detect", "idle">>}
             /\ \A j \in DOMAIN pc : j # i => pc'[j] = pc[j]
             /\ pc[i] # "detect" =>
                  UNCHANGED <<activePositions, dailyNotionalUsed,
                              spreadHistory, lastOpportunity>>
             /\ pc[i] = "detect" =>
                  (Len(activePositions') > Len(activePositions)
                     <=> (lastOpportunity' # Null /\ canOpenPosition)) ]_vars

\* the daily reset ran while an opportunity check was awaiting
\* detectOpportunity: the check is still in flight, and the ledger it will
\* be admitted against was reset at this instant
C28_ResetDuringCheck ==
  /\ \E i \in DOMAIN pc : pc[i] = "detect"
  /\ lastDailyReset = now
  /\ now >= DailyResetSeconds
  /\ dailyNotionalUsed = 0
  /\ Len(activePositions) > 0


----------------------------------------------------------------------------
(* Exposure across the daily reset: positions are opened four hours before *)
(* the reset falls due and after it                                        *)

ExposureOverrides == { <<1, 2>> }
ExposureResponses == { [hlRate |-> 50, binRate |-> 20] }
\* four hours before the first daily reset, the reset, four hours after it
ExposureTimePoints ==
  { DailyResetSeconds - 4 * 60 * 60, DailyResetSeconds,
    DailyResetSeconds + 4 * 60 * 60 }

InitExposure == \E o \in ExposureOverrides : Constructor(o, NotGiven, FALSE)

NextExposure ==
  \/ \E t \in ExposureTimePoints : Advance(t)
  \/ Start
  \/ \E i \in TickIds : CheckTimer(i)
  \/ \E i \in TickIds : CheckRates(i)
  \/ \E i \in TickIds, resp \in ExposureResponses :
       /\ CheckDetect(i, resp)
       /\ Len(spreadHistory') <= MaxHistory + 2
  \/ MonitorTimer
  \/ ResetTimer

SpecExposure == InitExposure /\ [][NextExposure]_vars

\* the total notional of the positions whose status is active
activeNotional ==
  SumSeq([j \in 1..Len(activePositions) |->
            IF activePositions[j].status = "active"
            THEN activePositions[j].notional ELSE 0])

\* C29: at every moment the total notional of the active positions is at
\* most maxDailyNotional, also across a daily reset, where the positions
\* opened before the reset and still active count with those opened after
C29_ActiveNotionalWithinCap ==
  activeNotional <= maxDailyNotional


\* the notionals of the k positions opened last
lastNotionals(k) ==
  SumSeq([j \in 1..k |->
            activePositions[Len(activePositions) - k + j].notional])

\* C30: in every state between two callbacks, dailyNotionalUsed is the sum
\* of the notionals of the positions, active or closed, opened since the
\* last daily reset: these are the k positions opened last, none of them
\* entered before lastDailyReset and none of the others after it
C30_LedgerIsSumSinceReset ==
  \E k \in 0..Len(activePositions) :
    /\ dailyNotionalUsed = lastNotionals(k)
    /\ \A j \in 1..Len(activePositions) :
         IF j > Len(activePositions) - k
         THEN activePositions[j].entryTime >= lastDailyReset
         ELSE activePositions[j].entryTime <= lastDailyReset

\* after a daily reset the ledger holds the notional of the one position
\* opened since, while two positions of the day before are on the list, the
\* first of them closed
C30_OneSinceReset ==
  /\ lastDailyReset >= DailyResetSeconds
  /\ Len(activePositions) = 3
  /\ activePositions[1].status = "closed"
  /\ activePositions[2].entryTime < lastDailyReset
  /\ activePositions[3].entryTime >= lastDailyReset
  /\ dailyNotionalUsed = activePositions[3].notional


----------------------------------------------------------------------------
(* Order of the steps of one detection *)

\* C31: within one detectOpportunity call the spread is computed, recorded
\* in the history, and only then the effective threshold is computed and
\* compared: the history left by the call ends with that spread, and under
\* the dynamic policy the decision and the threshold returned are those of
\* a threshold computed from the history that already contains the spread
C31_RecordBeforeThreshold ==
  [][ \A resp \in DetectResponses \ {Failure} :
        DetectReturns(resp) /\ ~invalidRates(resp) =>
          LET spread == resp.hlRate - resp.binRate
              recorded == spreadHistory'
              thr == EffectiveThreshold(recorded)
          IN /\ Len(recorded) > 0
             /\ recorded[Len(recorded)] = [timestamp |-> now, spread |-> spread]
             /\ lastOpportunity' # Null <=> StrictlyAbove(Abs(spread), thr)
             /\ lastOpportunity' # Null =>
                  lastOpportunity'.dynamicThreshold = thr ]_vars

\* under the dynamic policy a spread above the base threshold was recorded
\* second and was refused: with the history of before the call (one sample,
\* volatility 0) it would have been accepted
C31_RefusedByOwnSample ==
  /\ useDynamicSpread
  /\ Len(spreadHistory) = 2
  /\ spreadHistory[2].timestamp = now
  /\ Abs(spreadHistory[2].spread) > minFundingSpread
  /\ StrictlyAbove(Abs(spreadHistory[2].spread),
                   calculateDynamicThreshold(minFundingSpread,
                                             <<spreadHistory[1]>>))
  /\ ~StrictlyAbove(Abs(spreadHistory[2].spread),
                    calculateDynamicThreshold(minFundingSpread, spreadHistory))
  /\ lastOpportunity = Null
  /\ \A i \in TickIds : pc[i] = "idle"


----------------------------------------------------------------------------
(* Volatility of a short history *)

\* C32: the volatility of a history of fewer than 2 retained samples is 0,
\* so under the dynamic policy a detection that finds the history empty, or
\* finds only samples older than the lookback (all pruned by the call),
\* compares its spread against exactly the base threshold
C32_FirstDetectionAtBase ==
  /\ [](Len(spreadHistory) < 2 =>
          calculateVolatility(spreadHistory).radicand = 0)
  /\ [][ \A resp \in DetectResponses \ {Failure} :
           /\ DetectReturns(resp)
           /\ ~invalidRates(resp)
           /\ useDynamicSpread
           /\ \A k \in 1..Len(spreadHistory) :
                spreadHistory[k].timestamp < now - VOLATILITY_LOOKBACK
           => LET spread == resp.hlRate - resp.binRate
              IN /\ Len(spreadHistory') = 1
                 /\ lastOpportunity' # Null <=> Abs(spread) > minFundingSpread
                 /\ lastOpportunity' # Null =>
                      /\ lastOpportunity'.dynamicThreshold.base = minFundingSpread
                      /\ lastOpportunity'.dynamicThreshold.vol.radicand = 0 ]_vars

\* more than a day after the start the dynamic policy accepted a spread
\* against the base threshold alone: the sample of the call is the only one
\* retained
C32_AcceptedAtBaseAfterADay ==
  /\ useDynamicSpread
  /\ now > VOLATILITY_LOOKBACK
  /\ Len(spreadHistory) = 1
  /\ spreadHistory[1].timestamp = now
  /\ lastOpportunity # Null
  /\ lastOpportunity.spread = spreadHistory[1].spread
  /\ lastOpportunity.dynamicThreshold.base = minFundingSpread
  /\ lastOpportunity.dynamicThreshold.vol.radicand = 0


----------------------------------------------------------------------------
(* Admission within an opportunity check *)

\* C33: a position is created only by an opportunity check in which
\* detectOpportunity returned an opportunity and canOpenPosition held, and
\* such a check creates exactly one; a check that finds an opportunity while
\* admission is denied creates no position, leaves dailyNotionalUsed and
\* every existing position as they were, and ends normally
C33_OpensOnlyWhenAdmitted ==
  [][ /\ Len(activePositions') > Len(activePositions) =>
           /\ \E i \in TickIds, resp \in Responses : CheckDetect(i, resp)
           /\ lastOpportunity' # Null
           /\ maxDailyNotional - dailyNotionalUsed >= maxPositionNotional
           /\ Len(activePositions') = Len(activePositions) + 1
      /\ \A i \in TickIds, resp \in Responses :
           /\ CheckDetect(i, resp)
           /\ lastOpportunity' # Null
           /\ maxDailyNotional - dailyNotionalUsed < maxPositionNotional
           => /\ activePositions' = activePositions
              /\ dailyNotionalUsed' = dailyNotionalUsed
              /\ lastDailyReset' = lastDailyReset
              /\ isRunning' = isRunning
              /\ pc'[i] = "idle" ]_vars

\* the check that ran last, at the present instant, found an opportunity and
\* was denied: a position opened earlier holds the capacity, and no position
\* was entered now
C33_DeniedWithOpportunity ==
  /\ lastOpportunity # Null
  /\ maxDailyNotional - dailyNotionalUsed < maxPositionNotional
  /\ dailyNotionalUsed > 0
  /\ Len(activePositions) >= 1
  /\ \A j \in 1..Len(activePositions) : activePositions[j].entryTime < now
  /\ Len(spreadHistory) >= 1
  /\ spreadHistory[Len(spreadHistory)].timestamp = now
  /\ \A i \in TickIds : pc[i] = "idle"


----------------------------------------------------------------------------
(* The bot on the WebSocket monitor (Bybit <-> Coinbase): the Bybit stream *)
(* and the 60 s Coinbase poll fill the cached rates, getFundingRates       *)
(* answers from the cache while both rates are non-zero and asks the       *)
(* venues over REST otherwise.  A read that is answered from the cache     *)
(* resolves without leaving the running callback (only promise jobs run    *)
(* before the caller resumes); a read that asks the venues suspends the    *)
(* check until the answer arrives, and stream and poll callbacks run       *)
(* meanwhile                                                               *)

ReadRates == {0, 20, 50}
ReadResponses == [hlRate : ReadRates, binRate : ReadRates] \cup {Failure}
ReadOverrides == { <<1, 2>> }
ReadTimePoints == { 60 }

\* getFundingRates, "currentBybitRate !== 0 && currentCoinbaseRate !== 0"
Bybit_servedFromCache == currentBybitRate # 0 /\ currentCoinbaseRate # 0

\* getFundingRates of the WebSocket monitor: the cached rates when both are
\* non-zero, else the rates of the two REST requests, {0, 0} when one throws
Bybit_getFundingRates(resp) ==
  IF Bybit_servedFromCache
  THEN [hlRate |-> currentBybitRate, binRate |-> currentCoinbaseRate]
  ELSE IF resp = Failure THEN [hlRate |-> 0, binRate |-> 0]
  ELSE resp

\* subscribeBybit, the 'update' handler: a ticker of the symbol arrives
bybitUpdate(rate) ==
  /\ started # "no"
  /\ currentBybitRate' = rate
  /\ UNCHANGED <<reads, lastResetCheck, binance, legacy,
                 currentApexRate, currentCoinbaseRate, fetchFailed,
                 staleRead, basisDivergence, lastSweep, env, monitors,
                 coinbase, now, started, isRunning, pc, config,
                 dailyNotionalUsed, lastDailyReset, activePositions,
                 spreadHistory, lastOpportunity, loggedReason>>

\* fetchCoinbaseFundingRate of the WebSocket monitor: a 60 s poll comes
\* back; a poll that throws is logged and leaves the cached rate
Bybit_fetchCoinbaseFundingRate(outcome) ==
  /\ started # "no"
  /\ currentCoinbaseRate' = IF outcome = Failure THEN currentCoinbaseRate
                            ELSE outcome.rate
  /\ UNCHANGED <<extra, currentApexRate, fetchFailed, staleRead,
                 basisDivergence, lastSweep, env, monitors, coinbase, now,
                 started, isRunning, pc, config, dailyNotionalUsed,
                 lastDailyReset, activePositions, spreadHistory,
                 lastOpportunity, loggedReason>>

\* checkFundingOpportunity from the moment detectOpportunity has its rates
\* to the end of the check; reported are the rates the check read first
FinishCheck(i, reported, decided) ==
  /\ LET d == detectOpportunityFrom(decided, minFundingSpread,
                                    useDynamicSpread, spreadHistory, now)
     IN /\ spreadHistory' = d.history
        /\ lastOpportunity' = d.result
        /\ IF d.result # Null /\ canOpenPosition
           THEN executeFundingArb(d.result)
           ELSE UNCHANGED <<activePositions, dailyNotionalUsed>>
  /\ reads' = [reads EXCEPT ![i] = [reported |-> reported, decided |-> decided]]
  /\ pc' = [pc EXCEPT ![i] = "idle"]
  /\ started' = IF started = "initial" THEN "timers" ELSE started

\* the funding-check interval fires: with both rates cached the check reads
\* the cache twice and runs to its end; else its first read asks the venues
ReadTimer(i) ==
  /\ started = "timers"
  /\ pc[i] = "idle"
  /\ isRunning
  /\ IF Bybit_servedFromCache
     THEN FinishCheck(i, Bybit_getFundingRates(Failure),
                      Bybit_getFundingRates(Failure))
     ELSE /\ pc' = [pc EXCEPT ![i] = "rates"]
          /\ UNCHANGED <<reads, started, spreadHistory, lastOpportunity,
                         activePositions, dailyNotionalUsed>>
  /\ UNCHANGED <<currentBybitRate, lastResetCheck, binance, legacy,
                 currentApexRate, currentCoinbaseRate,
                 fetchFailed, staleRead, basisDivergence, lastSweep, env,
                 monitors, coinbase, now, isRunning, config, lastDailyReset,
                 loggedReason>>

\* the venues answer the first read of a check: the rates are logged and
\* detectOpportunity is called; its read is answered from the cache when
\* both rates have arrived meanwhile, else it asks the venues again
ReadReported(i, resp) ==
  /\ pc[i] = "rates"
  /\ LET reported == IF resp = Failure THEN [hlRate |-> 0, binRate |-> 0]
                     ELSE resp
     IN IF Bybit_servedFromCache
        THEN FinishCheck(i, reported, Bybit_getFundingRates(Failure))
        ELSE /\ pc' = [pc EXCEPT ![i] = "detect"]
             /\ reads' = [reads EXCEPT ![i] =
                            [reported |-> reported, decided |-> Null]]
             /\ UNCHANGED <<started, spreadHistory, lastOpportunity,
                            activePositions, dailyNotionalUsed>>
  /\ UNCHANGED <<currentBybitRate, lastResetCheck, binance, legacy,
                 currentApexRate, currentCoinbaseRate,
                 fetchFailed, staleRead, basisDivergence, lastSweep, env,
                 monitors, coinbase, now, isRunning, config, lastDailyReset,
                 loggedReason>>

\* the venues answer the read of detectOpportunity
ReadDecided(i, resp) ==
  /\ pc[i] = "detect"
  /\ FinishCheck(i, reads[i].reported,
                 IF resp = Failure THEN [hlRate |-> 0, binRate |-> 0]
                 ELSE resp)
  /\ UNCHANGED <<currentBybitRate, lastResetCheck, binance, legacy,
                 currentApexRate, currentCoinbaseRate,
                 fetchFailed, staleRead, basisDivergence, lastSweep, env,
                 monitors, coinbase, now, isRunning, config, lastDailyReset,
                 loggedReason>>

InitReads == \E o \in ReadOverrides : Constructor(o, NotGiven, FALSE)

NextReads ==
  \/ \E t \in ReadTimePoints : Advance(t)
  \/ Start
  \/ \E i \in TickIds :
       /\ ReadTimer(i)
       /\ Len(spreadHistory') <= MaxHistory
  \/ \E i \in TickIds, resp \in ReadResponses :
       /\ ReadReported(i, resp)
       /\ Len(spreadHistory') <= MaxHistory
  \/ \E i \in TickIds, resp \in ReadResponses :
       /\ ReadDecided(i, resp)
       /\ Len(spreadHistory') <= MaxHistory
  \/ \E rate \in ReadRates : bybitUpdate(rate)
  \/ \E outcome \in PollOutcomes : Bybit_fetchCoinbaseFundingRate(outcome)

SpecReads == InitReads /\ [][NextReads]_vars

\* C34: the rates an opportunity check read first, and logged, are the
\* rates on which its detectOpportunity call decided
C34_ReportedRatesDecide ==
  \A i \in DOMAIN reads :
    reads[i].decided # Null => reads[i].decided = reads[i].reported


----------------------------------------------------------------------------
(* Positions as hedges *)

\* C35: every position in the position list, active or closed, has one
\* venue LONG and the other SHORT, has venue A LONG exactly when its
\* spreadAtEntry is positive, and has |spreadAtEntry| strictly greater than
\* the configured minFundingSpread
C35_PositionsAreHedges ==
  \A j \in 1..Len(activePositions) :
    LET position == activePositions[j]
    IN /\ {position.bybitSide, position.binSide} = {"LONG", "SHORT"}
       /\ position.bybitSide = "LONG" <=> position.spreadAtEntry > 0
       /\ Abs(position.spreadAtEntry) > minFundingSpread

\* a position entered on a positive spread with venue A long, closed since,
\* and a later one entered on a negative spread with venue A short
C35_LongThenShort ==
  /\ Len(activePositions) >= 2
  /\ activePositions[1].spreadAtEntry > 0
  /\ activePositions[1].bybitSide = "LONG"
  /\ activePositions[1].status = "closed"
  /\ activePositions[2].spreadAtEntry < 0
  /\ activePositions[2].bybitSide = "SHORT"
  /\ activePositions[2].binSide = "LONG"


----------------------------------------------------------------------------
(* The daily-reset timer on the clock: start() registers it once the       *)
(* initial check is done, and it fires every hour from then on, whether    *)
(* the bot is running or was stopped                                       *)

\* setInterval(() => this.resetDailyLimits(), 3600000), in seconds
RESET_CHECK_INTERVAL == 60 * 60
\* caps that hold two positions, and none
ResetOverrides == { <<1, 2>>, <<3, 2>> }
ResetResponses == { [hlRate |-> 50, binRate |-> 20] }
\* the initial check ends at once or after 100 s; the instants are the
\* start and the firings of the timer that find a day elapsed
ResetTimePoints ==
  { k * DailyResetSeconds + d : k \in 0..2, d \in {0, 100} }
ResetHorizon == 2 * DailyResetSeconds + 100

\* a firing of the reset timer is due and has not run yet
ResetDue ==
  /\ started = "timers"
  /\ now > lastResetCheck
  /\ (now - lastResetCheck) % RESET_CHECK_INTERVAL = 0

\* the hourly daily-reset interval fires on time
ResetCheckTimer ==
  /\ ResetDue
  /\ lastResetCheck' = now
  /\ resetDailyLimits
  /\ UNCHANGED <<feeds, binance, legacy, currentApexRate, currentCoinbaseRate,
                 fetchFailed, staleRead, basisDivergence, lastSweep, env,
                 monitors, coinbase, now, started, isRunning, pc, config,
                 activePositions, spreadHistory, lastOpportunity,
                 loggedReason>>

\* time passes to the next instant, once the timer that was due has fired;
\* the initial check may take until 100 s
AdvanceReset ==
  /\ started = "timers" \/ (started = "initial" /\ now = 0)
  /\ ~ResetDue
  /\ \E t \in ResetTimePoints :
       /\ \A u \in ResetTimePoints : u > now => t <= u
       /\ Advance(t)

\* checkFundingOpportunity from the return of detectOpportunity to its end;
\* at the end of the initial check start() registers the timers
ResetCheckDetect(i, resp) ==
  /\ pc[i] = "detect"
  /\ FinishCheck(i, reads[i].reported, getFundingRates(resp))
  /\ lastResetCheck' = IF started = "initial" THEN now ELSE lastResetCheck
  /\ UNCHANGED <<currentBybitRate, binance, legacy, currentApexRate,
                 currentCoinbaseRate, fetchFailed, staleRead, basisDivergence,
                 lastSweep, env, monitors, coinbase, now, isRunning, config,
                 lastDailyReset, loggedReason>>

InitReset == \E o \in ResetOverrides : Constructor(o, NotGiven, FALSE)

NextReset ==
  \/ AdvanceReset
  \/ Start
  \/ \E i \in TickIds : CheckTimer(i)
  \/ \E i \in TickIds : CheckRates(i)
  \/ \E i \in TickIds, resp \in ResetResponses :
       /\ ResetCheckDetect(i, resp)
       /\ lastDailyReset + DailyResetSeconds <= ResetHorizon
       /\ Len(spreadHistory') <= MaxHistory + 2
  \/ ResetCheckTimer
  \/ Stop

SpecReset ==
  /\ InitReset
  /\ [][NextReset]_vars
  /\ WF_vars(ResetCheckTimer)
  /\ WF_vars(AdvanceReset)

\* C36: with maxPositionNotional <= maxDailyNotional and the reset timer
\* firing every hour, canOpenPosition does not stay false: it is false no
\* later than 24 h plus one reset-check period after lastDailyReset, it
\* becomes true again, and the firing that finds 24 h elapsed restores it
C36_CapacityRestored ==
  /\ [](maxPositionNotional <= maxDailyNotional
          /\ maxDailyNotional - dailyNotionalUsed < maxPositionNotional
          => now - lastDailyReset < DailyResetSeconds + RESET_CHECK_INTERVAL)
  /\ [][ ResetCheckTimer /\ now - lastDailyReset >= DailyResetSeconds
           /\ maxPositionNotional <= maxDailyNotional
         => maxDailyNotional - dailyNotionalUsed' >= maxPositionNotional ]_vars
  /\ (maxPositionNotional <= maxDailyNotional
        /\ maxDailyNotional - dailyNotionalUsed < maxPositionNotional)
       ~> (maxDailyNotional - dailyNotionalUsed >= maxPositionNotional)

\* the cap was used up by two positions taken in the first day, the reset
\* fired 100 s after the 24 h (the timer was registered 100 s after the
\* construction), and there is capacity again although the bot was stopped
C36_RestoredAfterStop ==
  /\ Len(activePositions) = 2
  /\ activePositions[1].notional + activePositions[2].notional
       = maxDailyNotional
  /\ lastDailyReset = DailyResetSeconds + 100
  /\ dailyNotionalUsed = 0
  /\ ~isRunning
  /\ maxDailyNotional - dailyNotionalUsed >= maxPositionNotional


----------------------------------------------------------------------------
(* Frame of the reset and of the opportunity check *)

\* C37: a firing of the daily reset changes nothing but dailyNotionalUsed
\* and lastDailyReset; an opportunity check leaves every existing position
\* as it is, appends at most one position and adds that position's notional
\* to dailyNotionalUsed, leaving lastDailyReset; and whether a check that
\* found an opportunity opens is decided by maxDailyNotional,
\* maxPositionNotional and dailyNotionalUsed alone, whatever the positions
C37_ResetAndCheckFrame ==
  [][ /\ ResetTimer =>
           /\ activePositions' = activePositions
           /\ UNCHANGED <<now, started, isRunning, pc, config, spreadHistory,
                          lastOpportunity, loggedReason, venues>>
           /\ \/ dailyNotionalUsed' = 0 /\ lastDailyReset' = now
              \/ UNCHANGED <<dailyNotionalUsed, lastDailyReset>>
      /\ (\E i \in TickIds, resp \in Responses : CheckDetect(i, resp)) =>
           /\ Len(activePositions') \in
                {Len(activePositions), Len(activePositions) + 1}
           /\ \A j \in 1..Len(activePositions) :
                activePositions'[j] = activePositions[j]
           /\ dailyNotionalUsed' = dailyNotionalUsed
                + (IF Len(activePositions') > Len(activePositions)
                   THEN activePositions'[Len(activePositions')].notional
                   ELSE 0)
           /\ lastDailyReset' = lastDailyReset
           /\ lastOpportunity' # Null =>
                (Len(activePositions') > Len(activePositions)
                   <=> maxDailyNotional - dailyNotionalUsed
                         >= maxPositionNotional) ]_vars

\* after a reset a position was opened while the two positions taken before
\* the reset are active with their notional: the admission looked at the
\* ledger, which the reset had emptied, not at the positions
C37_OpenedBesideHeldPositions ==
  /\ Len(activePositions) = 3
  /\ \A j \in 1..2 :
       /\ activePositions[j].status = "active"
       /\ activePositions[j].entryTime < lastDailyReset
       /\ activePositions[j].notional = maxPositionNotional
  /\ activePositions[3].entryTime >= lastDailyReset
  /\ dailyNotionalUsed = activePositions[3].notional
  /\ activePositions[1].notional + activePositions[2].notional
       + maxPositionNotional > maxDailyNotional


----------------------------------------------------------------------------
(* ApexFundingMonitor: the Binance mark-price stream.  subscribeBinance    *)
(* makes the socket and binds its handlers; the 'close' handler of every   *)
(* socket arms a 5 s timeout that calls subscribeBinance again             *)

\* data.r of a mark-price message: 0 for a message without the field
BinanceRates == {0, 20, 50}
ApexPollOutcomes == [rate : {20, 50}] \cup {Failure}

\* subscribeBinance: this.binanceWS = new WebSocket(wsUrl)
subscribeBinance ==
  [binance EXCEPT !.binanceWS = "connecting",
                  !.connections = binance.connections + 1,
                  !.reconnect = FALSE]

\* everything but the Binance stream and the cached Apex rate
ApexFrame ==
  <<feeds, lastResetCheck, legacy, currentCoinbaseRate, fetchFailed,
    staleRead, basisDivergence, lastSweep, env, monitors, coinbase, now,
    started, isRunning, pc, config, dailyNotionalUsed, lastDailyReset,
    activePositions, spreadHistory, lastOpportunity, loggedReason>>

\* start(): the Apex polling is started and the Binance stream subscribed
Apex_start ==
  /\ binance.connections = 0
  /\ binance' = subscribeBinance
  /\ UNCHANGED <<ApexFrame, currentApexRate>>

\* fetchApexFundingRate: a 60 s poll comes back; close() stops no poll
Apex_fetchApexFundingRate(outcome) ==
  /\ binance.connections > 0
  /\ currentApexRate' = IF outcome = Failure THEN currentApexRate
                        ELSE outcome.rate
  /\ UNCHANGED <<ApexFrame, binance>>

\* the 'open' handler: the connection is established
binanceOpen ==
  /\ binance.binanceWS = "connecting"
  /\ binance' = [binance EXCEPT !.binanceWS = "open"]
  /\ UNCHANGED <<ApexFrame, currentApexRate>>

\* the 'message' handler: "if (data.r)" the cached rate is replaced
binanceMessage(r) ==
  /\ binance.binanceWS = "open"
  /\ binance' = IF r # 0 THEN [binance EXCEPT !.currentBinanceRate = r]
                ELSE binance
  /\ UNCHANGED <<ApexFrame, currentApexRate>>

\* the 'close' handler: the socket was closed, by the venue, by the network
\* or by close(); the reconnect timeout is armed
binanceClosed ==
  /\ binance.binanceWS \in {"connecting", "open", "closing"}
  /\ binance' = [binance EXCEPT !.binanceWS = "closed", !.reconnect = TRUE]
  /\ UNCHANGED <<ApexFrame, currentApexRate>>

\* the timeout of the 'close' handler fires: subscribeBinance
reconnectTimeout ==
  /\ binance.reconnect
  /\ binance.connections < MaxConnections
  /\ binance' = subscribeBinance
  /\ UNCHANGED <<ApexFrame, currentApexRate>>

\* close(): "if (this.binanceWS) this.binanceWS.close()"
Apex_close ==
  /\ binance' = [binance EXCEPT
                   !.binanceWS = IF binance.binanceWS \in {"connecting", "open"}
                                 THEN "closing" ELSE binance.binanceWS,
                   !.closeCalled = TRUE]
  /\ UNCHANGED <<ApexFrame, currentApexRate>>

InitApex == Constructor(<<1, 2>>, NotGiven, FALSE)

\* the owner of the monitor calls start() once and close() afterwards
NextApex ==
  \/ Apex_start
  \/ \E outcome \in ApexPollOutcomes : Apex_fetchApexFundingRate(outcome)
  \/ binanceOpen
  \/ \E r \in BinanceRates : binanceMessage(r)
  \/ binanceClosed
  \/ reconnectTimeout
  \/ binance.connections > 0 /\ Apex_close

SpecApex == InitApex /\ [][NextApex]_vars

\* C38: once close() has been called on the Apex monitor no further
\* connection to the Binance stream is made and the cached Binance rate
\* keeps its value
C38_ClosedStaysClosed ==
  [][ binance.closeCalled =>
        /\ binance'.connections = binance.connections
        /\ binance'.currentBinanceRate = binance.currentBinanceRate ]_vars

\* ---------------------------------------------------------------------
\* The Polymarket bot: construction, start(), its two loops and stop()
\* ---------------------------------------------------------------------

\* the moments at which the Polymarket bot is looked at, in seconds after
\* the process started
LegacyTimePoints == {0, 1, 5, 6, 61, 66}

\* BalanceChecker.checkSufficientBalance against the 500 USDC minimum
LegacyBalances == {"sufficient", "low"}

\* what the market search of initializeMarket ends with
LegacyMarkets == {"found", "none", "fewTokens"}

LegacyFrame ==
  <<now, started, isRunning, pc, minFundingSpread, maxPositionNotional,
    maxDailyNotional, leverage, useDynamicSpread, dailyNotionalUsed,
    lastDailyReset, activePositions, spreadHistory, lastOpportunity,
    loggedReason, currentApexRate, currentCoinbaseRate, fetchFailed,
    staleRead, basisDivergence, lastSweep, env, monitors, coinbase, feeds,
    lastResetCheck, binance>>

\* the settings of the Polymarket bot
legacyBalanceCheckInterval == 60
legacyLogInterval == 30
legacyTradeCooldown == 30
legacyFeedWait == 5
legacyLoopDelay == 1

\* const connect = () => { if (!this.isRunning) return; this.xWs = new
\* WebSocket(url); ... }: the socket field after connect() has run
connect(running, ws) == IF ~running THEN ws ELSE "connecting"

\* new AutoTradingBot(): without a private key it throws; the funding
\* monitor is made only under --strategy=funding-arb and left null when
\* its constructor throws
Legacy_constructor(keyOk, fundingArg, monitorOk) ==
  /\ legacy.at = "unbuilt"
  /\ legacy' = [legacy EXCEPT
                  !.at = IF keyOk
                           THEN (IF fundingArg THEN "builtFunding" ELSE "built")
                           ELSE "threw",
                  !.fundingMonitor = keyOk /\ fundingArg /\ monitorOk]
  /\ UNCHANGED LegacyFrame

\* start() up to its first await: the funding strategy when it was asked
\* for and its monitor exists, the balance check otherwise
Legacy_start ==
  /\ legacy.at \in {"built", "builtFunding"}
  /\ legacy' = IF legacy.at = "builtFunding" /\ legacy.fundingMonitor
                 THEN [legacy EXCEPT !.at = "fundingArb", !.isRunning = TRUE]
                 ELSE [legacy EXCEPT !.at = "balances"]
  /\ UNCHANGED LegacyFrame

\* the balances arrive: start() throws on a low balance and goes on to
\* the market search otherwise
Legacy_checkAndDisplayBalances(balance) ==
  /\ legacy.at = "balances"
  /\ legacy' = [legacy EXCEPT
                  !.at = IF balance = "sufficient" THEN "market" ELSE "threw"]
  /\ UNCHANGED LegacyFrame

\* the market search ends: without a market start() throws; with one the
\* token ids are kept, "Connecting to data feeds" is logged, both
\* connect functions run and start() waits for the first prices
Legacy_initializeMarket(market) ==
  /\ legacy.at = "market"
  /\ legacy' =
       IF market = "found"
         THEN [legacy EXCEPT
                 !.tokenIds = TRUE,
                 !.softwareWs = connect(legacy.isRunning, legacy.softwareWs),
                 !.polymarketWs =
                    connect(legacy.isRunning, legacy.polymarketWs),
                 !.waitUntil = legacy.now + legacyFeedWait,
                 !.at = "waiting"]
         ELSE [legacy EXCEPT !.at = "threw"]
  /\ UNCHANGED LegacyFrame

\* checkTradeOpportunity up to its await: null while the cooldown runs
LegacyCoolingDown(l) == legacyTradeCooldown - (l.now - l.lastTradeTime) > 0

\* one pass of immediateTradingLoop up to its first await or its end
immediateTradingLoop(l) ==
  IF ~l.isRunning THEN [l EXCEPT !.trading = "ended"]
  ELSE IF LegacyCoolingDown(l)
         THEN [l EXCEPT !.trading = "sleeping",
                        !.tradingDue = l.now + legacyLoopDelay]
  ELSE [l EXCEPT !.trading = "balances"]

\* the wait for the first prices is over: isRunning is set, the
\* monitoring interval is armed and the trading loop starts at once
Legacy_started ==
  /\ legacy.at = "waiting"
  /\ legacy.now >= legacy.waitUntil
  /\ legacy' = immediateTradingLoop(
                  [legacy EXCEPT !.isRunning = TRUE, !.monitor = "idle",
                                 !.at = "started"])
  /\ UNCHANGED LegacyFrame

\* the rest of checkTradeOpportunity: no socket was made, so no price was
\* ever received and both price tables hold zero; the test
\* softwarePrice > 0 && polyPrice > 0 fails for both tokens
checkTradeOpportunity(balance, softwarePrice, polyPrice) ==
  IF balance # "sufficient" THEN Null
  ELSE IF softwarePrice > 0 /\ polyPrice > 0 THEN [tokenType |-> "UP"]
  ELSE Null

\* the balances of the trading loop arrive: nothing to trade, the loop
\* sleeps a second
tradingBalances(balance) ==
  /\ legacy.at = "started"
  /\ legacy.trading = "balances"
  /\ legacy' =
       IF checkTradeOpportunity(balance, 0, 0) = Null
         THEN [legacy EXCEPT !.trading = "sleeping",
                             !.tradingDue = legacy.now + legacyLoopDelay]
         ELSE [legacy EXCEPT !.lastTradeTime = legacy.now,
                             !.trading = "sleeping",
                             !.tradingDue = legacy.now + legacyLoopDelay]
  /\ UNCHANGED LegacyFrame

\* setTimeout(immediateTradingLoop, 1000) fires
tradingTimeout ==
  /\ legacy.at = "started"
  /\ legacy.trading = "sleeping"
  /\ legacy.now >= legacy.tradingDue
  /\ legacy' = immediateTradingLoop(legacy)
  /\ UNCHANGED LegacyFrame

\* the log part of the monitoring callback
monitorLog(l, t) ==
  IF t - l.lastLogTime >= legacyLogInterval
    THEN [l EXCEPT !.lastLogTime = t, !.monitor = "idle"]
    ELSE [l EXCEPT !.monitor = "idle"]

\* the monitoring interval fires: a balance check when one is due, the
\* price log otherwise
monitorTick ==
  /\ legacy.at = "started"
  /\ legacy.monitor = "idle"
  /\ legacy.isRunning
  /\ legacy' =
       IF legacy.now - legacy.lastBalanceCheck >= legacyBalanceCheckInterval
         THEN [legacy EXCEPT !.monitor = "balances",
                             !.monitorNow = legacy.now]
         ELSE monitorLog(legacy, legacy.now)
  /\ UNCHANGED LegacyFrame

\* the balances of the periodic check arrive: a low balance is only a
\* warning; the time read before the request is kept
monitorBalances(balance) ==
  /\ legacy.at = "started"
  /\ legacy.monitor = "balances"
  /\ legacy' = monitorLog(
                  [legacy EXCEPT !.lastBalanceCheck = legacy.monitorNow],
                  legacy.monitorNow)
  /\ UNCHANGED LegacyFrame

\* SIGINT: stop() clears isRunning and closes the sockets there are, then
\* the process exits
Legacy_stop ==
  /\ legacy.at \notin {"unbuilt", "threw", "exited"}
  /\ legacy' = [legacy EXCEPT
                  !.isRunning = FALSE,
                  !.softwareWs = IF legacy.softwareWs = "null"
                                   THEN "null" ELSE "closed",
                  !.polymarketWs = IF legacy.polymarketWs = "null"
                                     THEN "null" ELSE "closed",
                  !.at = "exited"]
  /\ UNCHANGED LegacyFrame

\* time passes while the bot waits
AdvanceLegacy ==
  /\ legacy.at \in {"balances", "market", "waiting", "started"}
  /\ \E t \in LegacyTimePoints :
       /\ LegacyEpoch + t > legacy.now
       /\ legacy' = [legacy EXCEPT !.now = LegacyEpoch + t]
  /\ UNCHANGED LegacyFrame

InitLegacy == Constructor(<<1, 2>>, NotGiven, FALSE)

NextLegacy ==
  \/ \E keyOk \in BOOLEAN, fundingArg \in BOOLEAN, monitorOk \in BOOLEAN :
       Legacy_constructor(keyOk, fundingArg, monitorOk)
  \/ Legacy_start
  \/ \E balance \in LegacyBalances : Legacy_checkAndDisplayBalances(balance)
  \/ \E market \in LegacyMarkets : Legacy_initializeMarket(market)
  \/ Legacy_started
  \/ \E balance \in LegacyBalances : tradingBalances(balance)
  \/ tradingTimeout
  \/ monitorTick
  \/ \E balance \in LegacyBalances : monitorBalances(balance)
  \/ Legacy_stop
  \/ AdvanceLegacy

SpecLegacy == InitLegacy /\ [][NextLegacy]_vars

\* start() of the Polymarket bot is past its "Connecting to data feeds"
\* step
LegacyPastConnecting == legacy.at \in {"waiting", "started"}

\* C39: once start() of the Polymarket bot is past its "Connecting to data
\* feeds" step, both the software-price socket and the Polymarket socket
\* have been opened
C39_FeedsOpenedBeforeTrading ==
  LegacyPastConnecting =>
    /\ legacy.softwareWs # "null"
    /\ legacy.polymarketWs # "null"

====
